---- MODULE Spec2Model ----
(***************************************************************************)
(* Model of the uwaterloo-facility-notifier pipeline.                      *)
(*                                                                         *)
(*   lambda_function.py  lambda_handler: fetch -> filter -> diff ->        *)
(*                       notify (Discord webhooks) -> persist              *)
(*   discord_utils.py    send_discord_message (same webhook loop)          *)
(*   telegram_utils.py   send_telegram_updates_async                       *)
(*                                                                         *)
(* Time is a small integer wall clock: Date(t) is the calendar day of t    *)
(* and TimeOfDay(t) the time within the day.  Calendar entries carry       *)
(* zone-naive start/end strings, which dateutil parses to naive datetimes; *)
(* now.replace(tzinfo=None) is the wall clock of now in TZ.                *)
(***************************************************************************)
EXTENDS Integers, Sequences, FiniteSets, TLC

VARIABLES
    event_configs,        \* lambda_function.event_configs (static registry)
    DISCORD_WEBHOOK_URLS, \* os.environ['DISCORD_WEBHOOK_URLS'].split(",")
    table,                \* DynamoDB table: the items, id -> value
    now,                  \* datetime.now(TZ) captured by the run
    pc,                   \* position of lambda_handler
    req_params,           \* one ReqParam per EventConfig
    fetch_tasks,          \* calendar_data_futures
    read_tasks,           \* stored_cal_entries_list_futures
    stored_cal_entries_list,
    current_cal_entries_list,
    changes_list,
    errors,               \* delivery errors collected by send_discord_message
    idx,                  \* loop index of the webhook loop / the put loop
    fanout_calls,         \* calls of send_discord_message in this run
    posts,                \* requests.post calls of this run, in order
    puts,                 \* table.put calls of this run, in order
    table_at_start,       \* the table as it was when the run started
    result,               \* what lambda_handler returned
    tg,                   \* state of send_telegram_updates_async
    prev_run,             \* what the run before this one did (history)
    calendar,             \* the entries the calendar source holds (history runs)
    refresh,              \* state of refresh_telegram_subscribers_async
    telegram_server,      \* the Bot API server: the updates it holds for the bot
    other,                \* a second invocation of lambda_handler on the same table
    other_refresh         \* a second invocation of refresh_telegram_subscribers_async

vars == << event_configs, DISCORD_WEBHOOK_URLS, table, now, pc, req_params,
           fetch_tasks, read_tasks, stored_cal_entries_list,
           current_cal_entries_list, changes_list, errors, idx, fanout_calls, posts,
           puts, table_at_start, result, tg, prev_run, calendar,
           refresh, telegram_server, other, other_refresh >>

(***************************************************************************)
(* Bounds                                                                  *)
(***************************************************************************)
\* most raw entries the calendar source returns in one run, over all its fetches
MaxLen == 2
\* latest wall-clock instant a run can start at
MaxTime == 1
\* number of Telegram chats that can be subscribed
MaxChats == 4
\* number of updates the Bot API server receives for the bot
MaxUpdates == 2

(***************************************************************************)
(* Small helpers                                                           *)
(***************************************************************************)
Range(s) == { s[i] : i \in 1..Len(s) }

\* Python's  x in list
InList(x, s) == \E i \in 1..Len(s) : s[i] = x

SeqsUpTo(S, n) == UNION { [1..k -> S] : k \in 0..n }

RECURSIVE flatten(_)
flatten(l) == IF l = <<>> THEN <<>> ELSE Head(l) \o flatten(Tail(l))

\* any(list of lists): some element is truthy (a non-empty list)
any(l) == \E i \in 1..Len(l) : l[i] # <<>>

\* date and time-of-day fields of a wall-clock instant
Date(t) == t \div 2
TimeOfDay(t) == t % 2

(***************************************************************************)
(* Titles: a title is a sequence of words; str.lower() maps each word to   *)
(* its lower-case form and  needle in title  is contiguous containment.    *)
(***************************************************************************)
lower_word(w) ==
    CASE w = "Open" -> "open"
      [] w = "Rec" -> "rec"
      [] w = "Skate" -> "skate"
      [] w = "Figure" -> "figure"
      [] w = "Skating" -> "skating"
      [] w = "Club" -> "club"
      [] w = "HOLD" -> "hold"
      [] w = "/Subscribe" -> "/subscribe"
      [] OTHER -> w

lower(title) == [ i \in 1..Len(title) |-> lower_word(title[i]) ]

Contains(needle, hay) ==
    \E k \in 0..(Len(hay) - Len(needle)) :
        \A j \in 1..Len(needle) : hay[k + j] = needle[j]

(***************************************************************************)
(* Date-time strings.  A string is modelled as <<day, time of day>>;       *)
(* dateutil.parser.parse turns it into a naive wall-clock instant.         *)
(***************************************************************************)
parse(s) == 2 * s[1] + s[2]

isoformat(t) == << Date(t), TimeOfDay(t) >>

strftime_start_of_day(t) == << Date(t), "00:00:00" >>

strftime_end_of_day(t) == << Date(t), "23:59:59" >>

\* t + timedelta(days=d)
plus_days(t, d) == t + 2 * d

\* strftime('%a %b %d %I:%M%p') keeps the day and the time, drops the year
pretty_print_time_range(start, end) ==
    LET s == parse(start)
        e == parse(end)
    IN  IF Date(s) = Date(e)
        THEN << Date(s), TimeOfDay(s), "-", TimeOfDay(e) >>
        ELSE << Date(s), TimeOfDay(s), "-", Date(e), TimeOfDay(e) >>

(***************************************************************************)
(* The registry of EventConfigs                                            *)
(***************************************************************************)
CIF == "6f60aca9-7fba-4bf1-b6af-1f85e9376462"

OpenRecSkate ==
    [ facility_id |-> CIF, facility_name |-> "CIF Arena", lookahead_days |-> 7,
      event_name |-> "Open Rec Skate", event_filter |-> "open rec" ]

FigureSkatingClub ==
    [ facility_id |-> CIF, facility_name |-> "CIF Arena", lookahead_days |-> 7,
      event_name |-> "Figure Skating Club", event_filter |-> "figure skating club" ]

\* the registry of the source, and the same registry with a longer window for
\* the second configuration (so that the two ReqParams differ)
Registries ==
    { << OpenRecSkate, FigureSkatingClub >>,
      << OpenRecSkate, [ FigureSkatingClub EXCEPT !.lookahead_days = 14 ] >> }

\* the lambdas bound to event_filter
event_filter(c, e) ==
    LET t == lower(e.title)
    IN  IF c.event_filter = "open rec"
        THEN Contains(<< "open", "rec" >>, t)
        ELSE /\ Contains(<< "figure", "skating" >>, t)
             /\ Contains(<< "club" >>, t)
             /\ ~ Contains(<< "hold" >>, t)

\* mutant: the title predicate is not applied
filter_calendar_entries_unfiltered(event_config, cal_entries) == cal_entries

\* line 278: the entries the configuration's predicate accepts, in order
filter_calendar_entries(event_config, cal_entries) ==
    SelectSeq(cal_entries, LAMBDA e : event_filter(event_config, e))

make_record_name(event_config) ==
    << "cal_entries", event_config.facility_id, event_config.event_name >>

ReqParam(facility_id, start, end) ==
    [ facility_id |-> facility_id, start |-> start, end |-> end ]

\* lambda_handler: one ReqParam per EventConfig
make_req_params(configs, t) ==
    [ i \in 1..Len(configs) |->
        ReqParam(configs[i].facility_id, strftime_start_of_day(t),
                 strftime_end_of_day(plus_days(t, configs[i].lookahead_days))) ]

(***************************************************************************)
(* Raw calendar entries the source can return                              *)
(***************************************************************************)
Entries ==
    { [ title |-> << "Open", "Rec", "Skate" >>, start |-> << 0, 1 >>, end |-> << 1, 0 >> ],
      [ title |-> << "Open", "Rec", "Skate" >>, start |-> << 1, 0 >>, end |-> << 1, 1 >> ],
      [ title |-> << "Figure", "Skating", "Club" >>, start |-> << 1, 0 >>, end |-> << 1, 1 >> ],
      [ title |-> << "Figure", "Skating", "Club", "HOLD" >>, start |-> << 0, 1 >>, end |-> << 1, 0 >> ] }

(***************************************************************************)
(* DynamoDBTable                                                           *)
(***************************************************************************)
\* The table is the set of its items: a function from the ids present to values.
\* mutant: a get of an absent id answers with some other item of the table
table_get_some_item(tbl, id) ==
    IF id \in DOMAIN tbl THEN [ none |-> FALSE, value |-> tbl[id] ]
    ELSE IF DOMAIN tbl # {}
    THEN [ none |-> FALSE, value |-> tbl[CHOOSE k \in DOMAIN tbl : TRUE] ]
    ELSE [ none |-> TRUE ]

\* DynamoDBTable.get: the item's value, or None when there is no item
table_get(tbl, id) ==
    IF id \in DOMAIN tbl THEN [ none |-> FALSE, value |-> tbl[id] ] ELSE [ none |-> TRUE ]

\* mutant: the put writes only the first entry of the snapshot
table_put_truncated(tbl, id, value) ==
    [ k \in (DOMAIN tbl) \cup { id } |->
        IF k = id THEN SubSeq(value, 1, 1) ELSE tbl[k] ]

\* mutant: the put replaces the whole table by the one item
table_put_only(tbl, id, value) == [ k \in { id } |-> value ]

\* DynamoDBTable.put
table_put(tbl, id, value) ==
    [ k \in (DOMAIN tbl) \cup { id } |-> IF k = id THEN value ELSE tbl[k] ]

\* DynamoDBTable.delete: the item under id is removed; no item, no change
table_delete(tbl, id) == [ k \in (DOMAIN tbl) \ { id } |-> tbl[k] ]

\* mutant: the stored snapshot is not read, every run starts from []
get_stored_calendar_entries_unread(event_config, tbl) == << >>

\* table.get(record_name) or []
get_stored_calendar_entries(event_config, tbl) ==
    LET v == table_get(tbl, make_record_name(event_config))
    IN  IF v.none THEN <<>> ELSE IF v.value = <<>> THEN <<>> ELSE v.value

(***************************************************************************)
(* Change detection                                                        *)
(***************************************************************************)
\* now.replace(tzinfo=None): the wall clock of now
replace_tzinfo_none(t) == t

\* mutant: the cancelled entries are listed last first
deleted_upcoming_entries_reversed(stored, current, t) ==
    LET d == SelectSeq(stored, LAMBDA e :
                 ~ InList(e, current) /\ parse(e.start) > replace_tzinfo_none(t))
    IN  [ k \in 1..Len(d) |-> d[Len(d) + 1 - k] ]

deleted_upcoming_entries(stored, current, t) ==
    SelectSeq(stored, LAMBDA e :
        ~ InList(e, current) /\ parse(e.start) > replace_tzinfo_none(t))

\* mutant: an entry starting exactly at now counts as upcoming
new_upcoming_entries_at_or_after(stored, current, t) ==
    SelectSeq(current, LAMBDA e :
        ~ InList(e, stored) /\ parse(e.start) >= replace_tzinfo_none(t))

new_upcoming_entries(stored, current, t) ==
    SelectSeq(current, LAMBDA e :
        ~ InList(e, stored) /\ parse(e.start) > replace_tzinfo_none(t))

time_ranges(entries) ==
    [ i \in 1..Len(entries) |-> pretty_print_time_range(entries[i].start, entries[i].end) ]

\* the list of embeds: a Cancelled block if any, then a New block if any
get_event_changes(event_config, stored, current, t) ==
    LET deleted == deleted_upcoming_entries(stored, current, t)
        new == new_upcoming_entries(stored, current, t)
    IN  (IF deleted # <<>>
         THEN << [ kind |-> "Cancelled", event_name |-> event_config.event_name,
                   facility_name |-> event_config.facility_name,
                   value |-> time_ranges(deleted), color |-> "16711680",
                   timestamp |-> isoformat(t) ] >>
         ELSE <<>>)
        \o
        (IF new # <<>>
         THEN << [ kind |-> "New", event_name |-> event_config.event_name,
                   facility_name |-> event_config.facility_name,
                   value |-> time_ranges(new), color |-> "65280",
                   timestamp |-> isoformat(t) ] >>
         ELSE <<>>)


(***************************************************************************)
(* The calendar source and get_calendar_data                               *)
(***************************************************************************)
\* what requests.get can answer: a 200 with a JSON list, a 200 whose body is
\* not JSON, or a non-200 status
Responses ==
    { [ status_code |-> 200, json |-> TRUE, body |-> b ] : b \in SeqsUpTo(Entries, MaxLen) }
    \cup { [ status_code |-> 200, json |-> FALSE, body |-> <<>> ],
           [ status_code |-> 500, json |-> TRUE, body |-> <<>> ] }

\* get_calendar_data: raises on a non-200 status, and r.json() raises on a body
\* that is not JSON
get_calendar_data(r) ==
    IF r.status_code # 200 THEN [ st |-> "raised", body |-> <<>> ]
    ELSE IF ~ r.json THEN [ st |-> "raised", body |-> <<>> ]
    ELSE [ st |-> "done", body |-> r.body ]

\* set(req_params): the distinct ReqParams, each once
RECURSIVE set_of(_)
set_of(s) ==
    IF s = <<>> THEN <<>>
    ELSE LET rest == set_of(Tail(s))
         IN  IF InList(Head(s), rest) THEN rest ELSE << Head(s) >> \o rest

\* mutant: one fetch per EventConfig, without deduplication
submit_fetches_per_config(params) ==
    [ i \in 1..Len(params) |-> [ p |-> params[i], st |-> "pending", body |-> <<>> ] ]

\* calendar_data_futures: one submitted fetch per distinct ReqParam
submit_fetches(params) ==
    LET ps == set_of(params)
    IN  [ i \in 1..Len(ps) |-> [ p |-> ps[i], st |-> "pending", body |-> <<>> ] ]

\* stored_cal_entries_list_futures: one submitted read per EventConfig
submit_reads(configs) ==
    [ i \in 1..Len(configs) |-> [ st |-> "pending", value |-> <<>> ] ]

\* calendar_data[p]
calendar_data(tasks, p) ==
    LET i == CHOOSE i \in 1..Len(tasks) : tasks[i].p = p
    IN  tasks[i].body

\* entries fetched so far in this run
RECURSIVE fetched_len(_)
fetched_len(tasks) ==
    IF tasks = <<>> THEN 0 ELSE Len(Head(tasks).body) + fetched_len(Tail(tasks))

(***************************************************************************)
(* DISCORD_WEBHOOK_URLS = os.environ['DISCORD_WEBHOOK_URLS'].split(",")    *)
(* The variable's text is a sequence of tokens: URL names and ",".  A URL  *)
(* is the sequence of tokens between two commas; "" is <<>>.               *)
(***************************************************************************)
RECURSIVE split(_)
split(text) ==
    IF \A i \in 1..Len(text) : text[i] # ","
    THEN << text >>
    ELSE LET k == CHOOSE k \in 1..Len(text) :
                     text[k] = "," /\ \A j \in 1..(k - 1) : text[j] # ","
         IN  << SubSeq(text, 1, k - 1) >> \o split(SubSeq(text, k + 1, Len(text)))

\* values of the environment variable
WebhookEnv ==
    { <<>>, << "hook1" >>, << "hook1", ",", "hook2" >> }

\* what requests.post can do for a URL: answer with a status, or raise
\* (always, for a URL without a scheme such as "")
PostOutcomes(url) ==
    IF url = <<>> THEN { [ raised |-> TRUE, status_code |-> 0 ] }
    ELSE { [ raised |-> FALSE, status_code |-> 204 ],
           [ raised |-> FALSE, status_code |-> 500 ],
           [ raised |-> TRUE, status_code |-> 0 ] }


(***************************************************************************)
(* lambda_handler                                                          *)
(***************************************************************************)
NoResult == [ statusCode |-> 0 ]

FetchError == [ statusCode |-> 500, message |-> "Error: could not get calendar data" ]

DeliveryError(errs) == [ statusCode |-> 500, errors |-> errs ]

Success(sent) == [ statusCode |-> 200, message |-> "Success", message_sent |-> sent ]

\* an exception of requests.post, which lambda_handler does not catch
Raised == [ statusCode |-> -1, message |-> "unhandled exception" ]

\* an exception of table.put, which lambda_handler does not catch
RaisedInPut == [ statusCode |-> -1, message |-> "unhandled exception in table.put" ]

\* an exception of DynamoDBTable(...) at line 285: create_table catches only
\* ResourceInUseException
RaisedInCreate ==
    [ statusCode |-> -1, message |-> "unhandled exception in create_table" ]

\* no run has ended yet, or the history is not kept
NoPrevRun == [ kind |-> "none" ]

\* refresh_telegram_subscribers_async has not been called
RefreshIdle ==
    [ pc |-> "idle", token |-> "", last_update_id |-> -1, update_subscribers |-> {},
      updates |-> << >>, i |-> 0, replies |-> << >>, result |-> "none",
      before |-> [ none |-> TRUE ], seen |-> {} ]

\* the Bot API server holds no update; update ids start from a positive number
NoUpdates == [ next_id |-> 1, pending |-> << >> ]

TgIdle ==
    [ pc |-> "idle", token |-> "", subscribers |-> {}, attempted |-> {},
      delivered |-> {}, errors |-> << >>, result |-> "none" ]

\* the second invocation of refresh_telegram_subscribers_async has not been
\* called; its fields are the locals of that invocation.  overlapped and
\* followed are history: whether the two invocations have run at the same
\* time, and whether the first was called again after the second was called
OtherRefreshIdle ==
    [ pc |-> "idle", token |-> "", last_update_id |-> -1, update_subscribers |-> {},
      updates |-> << >>, i |-> 0, result |-> "none", before |-> [ none |-> TRUE ],
      overlapped |-> FALSE, followed |-> FALSE ]

\* the second invocation of lambda_handler has not started; its fields are
\* the locals of that invocation, named as the first invocation's variables
OtherIdle ==
    [ pc |-> "idle", now |-> 0, fetch_tasks |-> << >>, read_tasks |-> << >>,
      stored_cal_entries_list |-> << >>, current_cal_entries_list |-> << >>,
      changes_list |-> << >>, errors |-> << >>, idx |-> 0, fanout_calls |-> 0,
      posts |-> << >>, puts |-> << >>, table_at_start |-> << >>,
      result |-> NoResult, started_after_first |-> FALSE ]

\* the state after the module is loaded; event_configs is the list of
\* lines 45-63
Init ==
    /\ event_configs = << OpenRecSkate, FigureSkatingClub >>
    /\ DISCORD_WEBHOOK_URLS \in { split(e) : e \in WebhookEnv }
    /\ table = << >>
    /\ now = 0
    /\ pc = "idle"
    /\ req_params = << >>
    /\ fetch_tasks = << >>
    /\ read_tasks = << >>
    /\ stored_cal_entries_list = << >>
    /\ current_cal_entries_list = << >>
    /\ changes_list = << >>
    /\ errors = << >>
    /\ idx = 0
    /\ fanout_calls = 0
    /\ posts = << >>
    /\ puts = << >>
    /\ table_at_start = << >>
    /\ result = NoResult
    /\ tg = TgIdle
    /\ prev_run = NoPrevRun
    /\ calendar = << >>
    /\ refresh = RefreshIdle
    /\ telegram_server = NoUpdates
    /\ other = OtherIdle
    /\ other_refresh = OtherRefreshIdle

\* lines 283-301: capture now, construct the table object, build the
\* ReqParams, submit the fetches and reads.  now is the wall clock in TZ, which
\* is set back when daylight time ends, so a run can start at an earlier
\* instant than the run before.  DynamoDBTable(...) calls create_table, and
\* any exception of it but ResourceInUseException ends the run at line 285,
\* before anything is submitted.
StartRunBody ==
    /\ pc \in { "idle", "done" }
    /\ \E t \in 0..MaxTime, create_raises \in BOOLEAN :
        /\ now' = t
        /\ IF create_raises
           THEN /\ req_params' = << >>
                /\ fetch_tasks' = << >>
                /\ read_tasks' = << >>
                /\ pc' = "done"
                /\ result' = RaisedInCreate
           ELSE /\ req_params' = make_req_params(event_configs, t)
                /\ fetch_tasks' = submit_fetches(make_req_params(event_configs, t))
                /\ read_tasks' = submit_reads(event_configs)
                /\ pc' = "pool"
                /\ result' = NoResult
    /\ stored_cal_entries_list' = << >>
    /\ current_cal_entries_list' = << >>
    /\ changes_list' = << >>
    /\ errors' = << >>
    /\ idx' = 0
    /\ fanout_calls' = 0
    /\ posts' = << >>
    /\ puts' = << >>
    /\ table_at_start' = table
    /\ UNCHANGED << event_configs, DISCORD_WEBHOOK_URLS, table, tg, refresh,
                    telegram_server,
                    other_refresh >>

StartRun == StartRunBody /\ UNCHANGED << prev_run, calendar, other >>

\* how a run ended
result_kind(r) ==
    IF r.statusCode = 200 THEN "success"
    ELSE IF r = FetchError THEN "fetch_failed"
    ELSE IF r = Raised THEN "raised"
    ELSE IF r = RaisedInPut THEN "raised_in_put"
    ELSE IF r = RaisedInCreate THEN "raised_in_create"
    ELSE "delivery_failed"

\* a change list without its timestamps
untimed(changes) ==
    [ i \in 1..Len(changes) |->
        [ k \in 1..Len(changes[i]) |->
            [ kind |-> changes[i][k].kind, value |-> changes[i][k].value ] ] ]

\* what a change list reports: << configuration, kind, time range >>
reported_items(changes) ==
    UNION { UNION { { << i, changes[i][k].kind, changes[i][k].value[n] >> :
                        n \in 1..Len(changes[i][k].value) } :
                    k \in 1..Len(changes[i]) } :
            i \in 1..Len(changes) }

\* the same, remembering what the run that has just ended did and which
\* webhooks answered 204 in it (ok_urls)
StartNextRun ==
    /\ StartRunBody
    /\ prev_run' =
         IF pc = "done" /\ result \notin { FetchError, RaisedInCreate }
         THEN [ kind |-> result_kind(result),
                stored |-> stored_cal_entries_list,
                current |-> current_cal_entries_list,
                changes |-> untimed(changes_list),
                ok_urls |-> { posts[k].url : k \in { j \in 1..Len(posts) :
                                ~ posts[j].raised /\ posts[j].status_code = 204 } } ]
         ELSE IF pc = "done"
         THEN [ kind |-> result_kind(result) ]
         ELSE NoPrevRun
    /\ UNCHANGED << calendar, other >>

\* a worker runs get_calendar_data(p) against the calendar source as it is
FetchCalendar(i) ==
    /\ pc = "pool"
    /\ fetch_tasks[i].st = "pending"
    /\ \E r \in Responses :
        /\ r.status_code = 200 /\ r.json => r.body = calendar
        /\ fetch_tasks' =
             [ fetch_tasks EXCEPT ![i] =
                 [ p |-> @.p, st |-> get_calendar_data(r).st,
                   body |-> get_calendar_data(r).body ] ]
    /\ UNCHANGED << event_configs, DISCORD_WEBHOOK_URLS, table, now, pc, req_params,
                    read_tasks, stored_cal_entries_list, current_cal_entries_list,
                    changes_list, errors, idx, fanout_calls, posts, puts, table_at_start,
                    result, tg, prev_run, calendar,
                    refresh, telegram_server, other,
                    other_refresh >>

\* a worker runs get_calendar_data(p)
FetchTask(i) ==
    /\ pc = "pool"
    /\ fetch_tasks[i].st = "pending"
    /\ \E r \in Responses :
        /\ Len(r.body) + fetched_len(fetch_tasks) <= MaxLen
        /\ fetch_tasks' =
             [ fetch_tasks EXCEPT ![i] =
                 [ p |-> @.p, st |-> get_calendar_data(r).st,
                   body |-> get_calendar_data(r).body ] ]
    /\ UNCHANGED << event_configs, DISCORD_WEBHOOK_URLS, table, now, pc, req_params,
                    read_tasks, stored_cal_entries_list, current_cal_entries_list,
                    changes_list, errors, idx, fanout_calls, posts, puts, table_at_start,
                    result, tg, prev_run, calendar,
                    refresh, telegram_server, other,
                    other_refresh >>

\* a worker runs get_stored_calendar_entries(config, table); table.get can
\* raise (throttling, a lost connection), and then the future holds the exception
ReadTask(i) ==
    /\ pc = "pool"
    /\ read_tasks[i].st = "pending"
    /\ \E get_raises \in BOOLEAN :
        read_tasks' =
          [ read_tasks EXCEPT ![i] =
              IF get_raises
              THEN [ st |-> "raised", value |-> << >> ]
              ELSE [ st |-> "done",
                     value |-> get_stored_calendar_entries(event_configs[i], table) ] ]
    /\ UNCHANGED << event_configs, DISCORD_WEBHOOK_URLS, table, now, pc, req_params,
                    fetch_tasks, stored_cal_entries_list, current_cal_entries_list,
                    changes_list, errors, idx, fanout_calls, posts, puts, table_at_start,
                    result, tg, prev_run, calendar,
                    refresh, telegram_server, other,
                    other_refresh >>

\* mutant: the handler goes on without waiting for the submitted tasks
all_tasks_complete_not_awaited(fetches, reads) == TRUE

\* every f.result() has returned or raised (the with block also waits for all)
all_tasks_complete(fetches, reads) ==
    /\ \A i \in 1..Len(fetches) : fetches[i].st # "pending"
    /\ \A i \in 1..Len(reads) : reads[i].st # "pending"

\* mutant: a raised fetch or read is not noticed
fetch_failed_never(fetches, reads) == FALSE

\* the except branch of lines 302-314 is taken: f.result() of a fetch future
\* or of a read future raised
fetch_failed(fetches, reads) ==
    \/ \E i \in 1..Len(fetches) : fetches[i].st = "raised"
    \/ \E i \in 1..Len(reads) : reads[i].st = "raised"

\* mutant: only the first configuration's changes are looked at
send_needed_first_only(changes) == changes # << >> /\ changes[1] # << >>

\* line 325: if any(changes_list)
send_needed(changes) == any(changes)

\* mutant: success is taken to be 200 instead of 204
is_delivery_error_not_200(status_code) == status_code # 200

\* line 251: a response that is a delivery error
is_delivery_error(status_code) == status_code # 204

\* mutant: the collected errors are ignored
fanout_failed_ignored(errs) == FALSE

\* line 330: if errors
fanout_failed(errs) == errs # << >>

\* mutant: a snapshot is written back only when the run sent a message
should_put_when_sent(current, stored) == current # stored /\ fanout_calls = 1

\* mutant: no snapshot is written back
should_put_never(current, stored) == FALSE

\* mutant: every snapshot is written back
should_put_always(current, stored) == TRUE

\* line 340: if current != stored
should_put(current, stored) == current # stored

\* mutant: the returned errors do not keep the run from persisting
AfterFanout_persists_anyway(errs) ==
    /\ pc' = "persist"
    /\ result' = result
    /\ idx' = 1

\* where lambda_handler goes once send_discord_message has returned errs
AfterFanout(errs) ==
    IF fanout_failed(errs)
    THEN /\ pc' = "done"
         /\ result' = DeliveryError(errs)
         /\ idx' = 0
    ELSE /\ pc' = "persist"
         /\ result' = result
         /\ idx' = 1

\* lines 303-325: fan in, then filter and diff
FanIn ==
    /\ pc = "pool"
    /\ all_tasks_complete(fetch_tasks, read_tasks)
    /\ IF fetch_failed(fetch_tasks, read_tasks)
       THEN /\ pc' = "done"
            /\ result' = FetchError
            /\ UNCHANGED << stored_cal_entries_list, current_cal_entries_list,
                            changes_list, idx, fanout_calls >>
       ELSE LET stored == [ i \in 1..Len(read_tasks) |-> read_tasks[i].value ]
                current == [ i \in 1..Len(event_configs) |->
                               filter_calendar_entries(event_configs[i],
                                   calendar_data(fetch_tasks, req_params[i])) ]
                changes == [ i \in 1..Len(event_configs) |->
                               get_event_changes(event_configs[i], stored[i],
                                                 current[i], now) ]
            IN  /\ stored_cal_entries_list' = stored
                /\ current_cal_entries_list' = current
                /\ changes_list' = changes
                /\ fanout_calls' = IF send_needed(changes) THEN 1 ELSE 0
                /\ IF send_needed(changes) /\ DISCORD_WEBHOOK_URLS # << >>
                   THEN /\ pc' = "notify"
                        /\ idx' = 1
                        /\ result' = result
                   ELSE AfterFanout(<< >>)
    /\ UNCHANGED << event_configs, DISCORD_WEBHOOK_URLS, table, now, req_params,
                    fetch_tasks, read_tasks, errors, posts, puts, table_at_start, tg, prev_run, calendar,
                    refresh, telegram_server, other,
                    other_refresh >>

\* mutant: the payload carries the schedules but not the change blocks
discord_embeds_without_changes(changes, configs, cal_entries_list, t) ==
    [ author |-> "sk8rgoose has an update!",
      changes |-> << >>,
      schedules |->
        [ i \in 1..Len(configs) |->
            [ event_name |-> configs[i].event_name,
              facility_name |-> configs[i].facility_name,
              lookahead_days |-> configs[i].lookahead_days,
              value |-> time_ranges(cal_entries_list[i]),
              facility_id |-> configs[i].facility_id,
              timestamp |-> isoformat(t) ] ] ]

\* the embeds of the payload: the author block, every configuration's change
\* blocks, then one schedule block per configuration
discord_embeds(changes, configs, cal_entries_list, t) ==
    [ author |-> "sk8rgoose has an update!",
      changes |-> flatten(changes),
      schedules |->
        [ i \in 1..Len(configs) |->
            [ event_name |-> configs[i].event_name,
              facility_name |-> configs[i].facility_name,
              lookahead_days |-> configs[i].lookahead_days,
              value |-> time_ranges(cal_entries_list[i]),
              facility_id |-> configs[i].facility_id,
              timestamp |-> isoformat(t) ] ] ]

\* mutant: an exception of requests.post is swallowed
post_raises_swallowed(o) == FALSE

\* line 246: requests.post raises instead of returning a response; nothing in
\* send_discord_message or lambda_handler catches it
post_raises(o) == o.raised

\* send_discord_message, lines 236-255: one iteration of the webhook loop
Post ==
    /\ pc = "notify"
    /\ \E o \in PostOutcomes(DISCORD_WEBHOOK_URLS[idx]) :
        LET url == DISCORD_WEBHOOK_URLS[idx]
            errs == IF is_delivery_error(o.status_code)
                    THEN Append(errors, [ status_code |-> o.status_code,
                                          webhook_url |-> url ])
                    ELSE errors
        IN  /\ posts' = Append(posts,
                   [ url |-> url, raised |-> o.raised, status_code |-> o.status_code,
                     embeds |-> discord_embeds(changes_list, event_configs,
                                               current_cal_entries_list, now) ])
            /\ IF post_raises(o)
               THEN /\ pc' = "done"
                    /\ result' = Raised
                    /\ idx' = 0
                    /\ errors' = errors
               ELSE /\ errors' = errs
                    /\ IF idx < Len(DISCORD_WEBHOOK_URLS)
                       THEN /\ idx' = idx + 1
                            /\ pc' = pc
                            /\ result' = result
                       ELSE AfterFanout(errs)
    /\ UNCHANGED << event_configs, DISCORD_WEBHOOK_URLS, table, now, req_params,
                    fetch_tasks, read_tasks, stored_cal_entries_list,
                    current_cal_entries_list, changes_list, fanout_calls, puts,
                    table_at_start, tg, prev_run, calendar,
                    refresh, telegram_server, other,
                    other_refresh >>

\* lines 339-346: one iteration of the put loop, and the return after the last
Persist ==
    /\ pc = "persist"
    /\ LET c == event_configs[idx]
           stored == stored_cal_entries_list[idx]
           current == current_cal_entries_list[idx]
       IN  IF should_put(current, stored)
           THEN /\ table' = table_put(table, make_record_name(c), current)
                /\ puts' = Append(puts, [ id |-> make_record_name(c), value |-> current ])
           ELSE UNCHANGED << table, puts >>
    /\ IF idx < Len(event_configs)
       THEN /\ idx' = idx + 1
            /\ UNCHANGED << pc, result >>
       ELSE /\ idx' = 0
            /\ pc' = "done"
            /\ result' = Success(send_needed(changes_list))
    /\ UNCHANGED << event_configs, DISCORD_WEBHOOK_URLS, now, req_params, fetch_tasks,
                    read_tasks, stored_cal_entries_list, current_cal_entries_list,
                    changes_list, errors, fanout_calls, posts, table_at_start, tg, prev_run, calendar,
                    refresh, telegram_server, other,
                    other_refresh >>

\* line 341: table.put raises (throttling, a lost connection): the exception
\* leaves lambda_handler; the item may or may not have been written
PutRaises ==
    /\ pc = "persist"
    /\ should_put(current_cal_entries_list[idx], stored_cal_entries_list[idx])
    /\ \E written \in BOOLEAN :
        table' = IF written
                 THEN table_put(table, make_record_name(event_configs[idx]),
                                current_cal_entries_list[idx])
                 ELSE table
    /\ puts' = Append(puts, [ id |-> make_record_name(event_configs[idx]),
                              value |-> current_cal_entries_list[idx] ])
    /\ pc' = "done"
    /\ idx' = 0
    /\ result' = RaisedInPut
    /\ UNCHANGED << event_configs, DISCORD_WEBHOOK_URLS, now, req_params, fetch_tasks,
                    read_tasks, stored_cal_entries_list, current_cal_entries_list,
                    changes_list, errors, fanout_calls, posts, table_at_start, tg,
                    prev_run, calendar,
                    refresh, telegram_server, other,
                    other_refresh >>

Next ==
    \/ StartRun
    \/ \E i \in 1..Len(fetch_tasks) : FetchTask(i)
    \/ \E i \in 1..Len(read_tasks) : ReadTask(i)
    \/ FanIn
    \/ Post
    \/ Persist
    \/ PutRaises

Spec == Init /\ [][Next]_vars

(***************************************************************************)
(* Consecutive runs: the same handler, with the history of the run before  *)
(* it.  An earlier successful run has left in the table the snapshots of   *)
(* what the calendar source held then; the source now holds `calendar`,    *)
(* and keeps it while runs fail and are run again.  A put can raise.       *)
(***************************************************************************)
\* the table a successful run leaves, starting from an empty table, when the
\* source holds the entries c
table_after_first_run(configs, c) ==
    LET ids == { i \in 1..Len(configs) : filter_calendar_entries(configs[i], c) # << >> }
    IN  [ id \in { make_record_name(configs[i]) : i \in ids } |->
            LET i == CHOOSE i \in ids : make_record_name(configs[i]) = id
            IN  filter_calendar_entries(configs[i], c) ]

\* the entries of the calendar source that are sessions of a configuration
\* of the registry; the others never get past filter_calendar_entries
Sessions ==
    { e \in Entries : event_filter(OpenRecSkate, e) \/ event_filter(FigureSkatingClub, e) }

InitHistory ==
    /\ event_configs = << OpenRecSkate, FigureSkatingClub >>
    /\ DISCORD_WEBHOOK_URLS = split(<< "hook1", ",", "hook2" >>)
    /\ \E c \in SeqsUpTo(Entries, MaxLen) : table = table_after_first_run(event_configs, c)
    /\ calendar \in SeqsUpTo(Sessions, MaxLen)
    /\ now = 0
    /\ pc = "idle"
    /\ req_params = << >>
    /\ fetch_tasks = << >>
    /\ read_tasks = << >>
    /\ stored_cal_entries_list = << >>
    /\ current_cal_entries_list = << >>
    /\ changes_list = << >>
    /\ errors = << >>
    /\ idx = 0
    /\ fanout_calls = 0
    /\ posts = << >>
    /\ puts = << >>
    /\ table_at_start = table
    /\ result = NoResult
    /\ tg = TgIdle
    /\ prev_run = NoPrevRun
    /\ refresh = RefreshIdle
    /\ telegram_server = NoUpdates
    /\ other = OtherIdle
    /\ other_refresh = OtherRefreshIdle

NextHistory ==
    \/ StartNextRun
    \/ \E i \in 1..Len(fetch_tasks) : FetchCalendar(i)
    \/ \E i \in 1..Len(read_tasks) : ReadTask(i)
    \/ FanIn
    \/ Post
    \/ Persist
    \/ PutRaises

SpecHistory == InitHistory /\ [][NextHistory]_vars

(***************************************************************************)
(* One run over a table left by an earlier run, with the registry as in    *)
(* the source (both configurations resolve to one ReqParam) or with a      *)
(* second configuration that looks further ahead (two distinct ReqParams,  *)
(* two fetches).                                                           *)
(***************************************************************************)
InitRegistry ==
    /\ event_configs \in Registries
    /\ DISCORD_WEBHOOK_URLS = split(<< "hook1" >>)
    /\ \E c \in SeqsUpTo(Entries, MaxLen) : table = table_after_first_run(event_configs, c)
    /\ calendar = << >>
    /\ now = 0
    /\ pc = "idle"
    /\ req_params = << >>
    /\ fetch_tasks = << >>
    /\ read_tasks = << >>
    /\ stored_cal_entries_list = << >>
    /\ current_cal_entries_list = << >>
    /\ changes_list = << >>
    /\ errors = << >>
    /\ idx = 0
    /\ fanout_calls = 0
    /\ posts = << >>
    /\ puts = << >>
    /\ table_at_start = table
    /\ result = NoResult
    /\ tg = TgIdle
    /\ prev_run = NoPrevRun
    /\ refresh = RefreshIdle
    /\ telegram_server = NoUpdates
    /\ other = OtherIdle
    /\ other_refresh = OtherRefreshIdle

\* the one invocation of lambda_handler
StartOneRun ==
    /\ pc = "idle"
    /\ StartRun

NextRegistry ==
    \/ StartOneRun
    \/ \E i \in 1..Len(fetch_tasks) : FetchTask(i)
    \/ \E i \in 1..Len(read_tasks) : ReadTask(i)
    \/ FanIn
    \/ Post
    \/ Persist
    \/ PutRaises

SpecRegistry == InitRegistry /\ [][NextRegistry]_vars

(***************************************************************************)
(* Two invocations of lambda_handler over one table.  Nothing in the       *)
(* handler locks the table or checks that no other invocation is running,  *)
(* so the second invocation can start at any moment: before the first,     *)
(* while the first is between any two of its steps, or after it has ended. *)
(* The second invocation is the same code; its locals are the fields of    *)
(* `other`, and each of its actions is the first invocation's action of    *)
(* the same name over those fields.  Both invocations read and write the   *)
(* one table and fetch from the one calendar source, which can change what *)
(* it holds at any moment.                                                 *)
(***************************************************************************)
\* the variables an action of the second invocation leaves alone, but for
\* the table
not_of_other ==
    << event_configs, DISCORD_WEBHOOK_URLS, now, pc, req_params, fetch_tasks,
       read_tasks, stored_cal_entries_list, current_cal_entries_list, changes_list,
       errors, idx, fanout_calls, posts, puts, table_at_start, result, tg, prev_run,
       calendar, refresh, telegram_server, other_refresh >>

\* lines 283-301 of the second invocation; started_after_first records
\* whether the first invocation had ended by then (the two do not overlap)
OtherStartRun ==
    /\ other.pc = "idle"
    /\ \E t \in 0..MaxTime, create_raises \in BOOLEAN :
        other' =
          IF create_raises
          THEN [ other EXCEPT !.now = t, !.pc = "done", !.result = RaisedInCreate,
                              !.table_at_start = table,
                              !.started_after_first = (pc = "done") ]
          ELSE [ other EXCEPT !.now = t, !.pc = "pool",
                              !.fetch_tasks =
                                  submit_fetches(make_req_params(event_configs, t)),
                              !.read_tasks = submit_reads(event_configs),
                              !.table_at_start = table,
                              !.started_after_first = (pc = "done") ]
    /\ UNCHANGED << not_of_other, table >>

\* a worker of the second invocation runs get_calendar_data(p)
OtherFetchCalendar(i) ==
    /\ other.pc = "pool"
    /\ other.fetch_tasks[i].st = "pending"
    /\ \E r \in Responses :
        /\ r.status_code = 200 /\ r.json => r.body = calendar
        /\ other' =
             [ other EXCEPT !.fetch_tasks[i] =
                 [ p |-> @.p, st |-> get_calendar_data(r).st,
                   body |-> get_calendar_data(r).body ] ]
    /\ UNCHANGED << not_of_other, table >>

\* a worker of the second invocation runs get_stored_calendar_entries
OtherReadTask(i) ==
    /\ other.pc = "pool"
    /\ other.read_tasks[i].st = "pending"
    /\ \E get_raises \in BOOLEAN :
        other' =
          [ other EXCEPT !.read_tasks[i] =
              IF get_raises
              THEN [ st |-> "raised", value |-> << >> ]
              ELSE [ st |-> "done",
                     value |-> get_stored_calendar_entries(event_configs[i], table) ] ]
    /\ UNCHANGED << not_of_other, table >>

\* lines 303-336 of the second invocation, after send_discord_message has
\* returned errs: the fields pc, result and idx
OtherAfterFanout(errs) ==
    IF fanout_failed(errs)
    THEN [ pc |-> "done", result |-> DeliveryError(errs), idx |-> 0 ]
    ELSE [ pc |-> "persist", result |-> other.result, idx |-> 1 ]

\* lines 303-325 of the second invocation
OtherFanIn ==
    /\ other.pc = "pool"
    /\ all_tasks_complete(other.fetch_tasks, other.read_tasks)
    /\ IF fetch_failed(other.fetch_tasks, other.read_tasks)
       THEN other' = [ other EXCEPT !.pc = "done", !.result = FetchError ]
       ELSE LET params == make_req_params(event_configs, other.now)
                stored == [ i \in 1..Len(other.read_tasks) |-> other.read_tasks[i].value ]
                current == [ i \in 1..Len(event_configs) |->
                               filter_calendar_entries(event_configs[i],
                                   calendar_data(other.fetch_tasks, params[i])) ]
                changes == [ i \in 1..Len(event_configs) |->
                               get_event_changes(event_configs[i], stored[i],
                                                 current[i], other.now) ]
                after == OtherAfterFanout(<< >>)
            IN  other' =
                  IF send_needed(changes) /\ DISCORD_WEBHOOK_URLS # << >>
                  THEN [ other EXCEPT !.stored_cal_entries_list = stored,
                                      !.current_cal_entries_list = current,
                                      !.changes_list = changes,
                                      !.fanout_calls = 1,
                                      !.pc = "notify", !.idx = 1 ]
                  ELSE [ other EXCEPT !.stored_cal_entries_list = stored,
                                      !.current_cal_entries_list = current,
                                      !.changes_list = changes,
                                      !.fanout_calls = IF send_needed(changes) THEN 1 ELSE 0,
                                      !.pc = after.pc, !.idx = after.idx,
                                      !.result = after.result ]
    /\ UNCHANGED << not_of_other, table >>

\* send_discord_message of the second invocation: one iteration of the loop
OtherPost ==
    /\ other.pc = "notify"
    /\ \E o \in PostOutcomes(DISCORD_WEBHOOK_URLS[other.idx]) :
        LET url == DISCORD_WEBHOOK_URLS[other.idx]
            errs == IF is_delivery_error(o.status_code)
                    THEN Append(other.errors, [ status_code |-> o.status_code,
                                                webhook_url |-> url ])
                    ELSE other.errors
            sent == Append(other.posts,
                      [ url |-> url, raised |-> o.raised, status_code |-> o.status_code,
                        embeds |-> discord_embeds(other.changes_list, event_configs,
                                                  other.current_cal_entries_list,
                                                  other.now) ])
            after == OtherAfterFanout(errs)
        IN  other' =
              IF post_raises(o)
              THEN [ other EXCEPT !.posts = sent, !.pc = "done", !.result = Raised,
                                  !.idx = 0 ]
              ELSE IF other.idx < Len(DISCORD_WEBHOOK_URLS)
              THEN [ other EXCEPT !.posts = sent, !.errors = errs, !.idx = @ + 1 ]
              ELSE [ other EXCEPT !.posts = sent, !.errors = errs, !.pc = after.pc,
                                  !.idx = after.idx, !.result = after.result ]
    /\ UNCHANGED << not_of_other, table >>

\* lines 339-346 of the second invocation: one iteration of the put loop
OtherPersist ==
    /\ other.pc = "persist"
    /\ LET c == event_configs[other.idx]
           stored == other.stored_cal_entries_list[other.idx]
           current == other.current_cal_entries_list[other.idx]
           made == IF should_put(current, stored)
                   THEN Append(other.puts, [ id |-> make_record_name(c),
                                             value |-> current ])
                   ELSE other.puts
       IN  /\ table' = IF should_put(current, stored)
                       THEN table_put(table, make_record_name(c), current)
                       ELSE table
           /\ other' =
                IF other.idx < Len(event_configs)
                THEN [ other EXCEPT !.puts = made, !.idx = @ + 1 ]
                ELSE [ other EXCEPT !.puts = made, !.idx = 0, !.pc = "done",
                                    !.result = Success(send_needed(other.changes_list)) ]
    /\ UNCHANGED not_of_other

\* line 341 of the second invocation: table.put raises
OtherPutRaises ==
    /\ other.pc = "persist"
    /\ should_put(other.current_cal_entries_list[other.idx],
                  other.stored_cal_entries_list[other.idx])
    /\ \E written \in BOOLEAN :
        table' = IF written
                 THEN table_put(table, make_record_name(event_configs[other.idx]),
                                other.current_cal_entries_list[other.idx])
                 ELSE table
    /\ other' = [ other EXCEPT
                    !.puts = Append(@, [ id |-> make_record_name(event_configs[other.idx]),
                                         value |-> other.current_cal_entries_list[other.idx] ]),
                    !.pc = "done", !.idx = 0, !.result = RaisedInPut ]
    /\ UNCHANGED not_of_other

\* what the source can hold in these runs: no session, or one session of a
\* configuration of the registry
Timetables == { << >> } \cup { << e >> : e \in Sessions }

\* the calendar source comes to hold other entries, at any moment: before,
\* between, during or after the invocations; a GET returns what it holds then
SourceChanges ==
    /\ \E c \in Timetables :
        /\ c # calendar
        /\ calendar' = c
    /\ UNCHANGED << event_configs, DISCORD_WEBHOOK_URLS, table, now, pc, req_params,
                    fetch_tasks, read_tasks, stored_cal_entries_list,
                    current_cal_entries_list, changes_list, errors, idx, fanout_calls,
                    posts, puts, table_at_start, result, tg, prev_run, refresh,
                    telegram_server, other,
                    other_refresh >>

\* an earlier run has left its snapshots in the table; the source holds
\* `calendar`; one webhook is configured
InitOverlap ==
    /\ event_configs = << OpenRecSkate, FigureSkatingClub >>
    /\ DISCORD_WEBHOOK_URLS = split(<< "hook1" >>)
    /\ \E c \in Timetables : table = table_after_first_run(event_configs, c)
    /\ calendar \in Timetables
    /\ now = 0
    /\ pc = "idle"
    /\ req_params = << >>
    /\ fetch_tasks = << >>
    /\ read_tasks = << >>
    /\ stored_cal_entries_list = << >>
    /\ current_cal_entries_list = << >>
    /\ changes_list = << >>
    /\ errors = << >>
    /\ idx = 0
    /\ fanout_calls = 0
    /\ posts = << >>
    /\ puts = << >>
    /\ table_at_start = table
    /\ result = NoResult
    /\ tg = TgIdle
    /\ prev_run = NoPrevRun
    /\ refresh = RefreshIdle
    /\ telegram_server = NoUpdates
    /\ other = OtherIdle
    /\ other_refresh = OtherRefreshIdle

NextOverlap ==
    \/ StartOneRun
    \/ \E i \in 1..Len(fetch_tasks) : FetchCalendar(i)
    \/ \E i \in 1..Len(read_tasks) : ReadTask(i)
    \/ FanIn
    \/ Post
    \/ Persist
    \/ PutRaises
    \/ SourceChanges
    \/ OtherStartRun
    \/ \E i \in 1..Len(other.fetch_tasks) : OtherFetchCalendar(i)
    \/ \E i \in 1..Len(other.read_tasks) : OtherReadTask(i)
    \/ OtherFanIn
    \/ OtherPost
    \/ OtherPersist
    \/ OtherPutRaises

SpecOverlap == InitOverlap /\ [][NextOverlap]_vars

(***************************************************************************)
(* The class DynamoDBTable used on its own, as a maintenance script or a   *)
(* console session would.  put stores the value it is given under the id   *)
(* it is given, whatever they are; delete removes the item under the id.   *)
(* Either call can raise (throttling, a lost connection), and the item may *)
(* or may not have been written or removed by then.  delete has no caller  *)
(* in lambda_handler, send_discord_message or telegram_utils, so no run of *)
(* the handler removes an item and the next-state relations of the handler *)
(* do not include TableDelete.                                             *)
(***************************************************************************)
\* ids a caller passes: the record names of the registry, and an id that is
\* the record name of no configuration
TableIds ==
    { make_record_name(event_configs[i]) : i \in 1..Len(event_configs) }
        \cup { << "cal_entries", "some", "other", "id" >> }

\* table.put(id, value), lines 148-149: put_item of the value as given
TablePut ==
    /\ pc \in { "idle", "done" }
    /\ \E id \in TableIds, value \in SeqsUpTo(Entries, MaxLen),
          put_raises \in BOOLEAN, written \in BOOLEAN :
        table' = IF put_raises /\ ~ written THEN table
                 ELSE table_put(table, id, value)
    /\ UNCHANGED << event_configs, DISCORD_WEBHOOK_URLS, now, pc, req_params,
                    fetch_tasks, read_tasks, stored_cal_entries_list,
                    current_cal_entries_list, changes_list, errors, idx, fanout_calls,
                    posts, puts, table_at_start, result, tg, prev_run, calendar,
                    refresh, telegram_server, other,
                    other_refresh >>

\* table.delete(id), lines 151-152: delete_item of the id as given
TableDelete ==
    /\ pc \in { "idle", "done" }
    /\ \E id \in TableIds, delete_raises \in BOOLEAN, removed \in BOOLEAN :
        table' = IF delete_raises /\ ~ removed THEN table
                 ELSE table_delete(table, id)
    /\ UNCHANGED << event_configs, DISCORD_WEBHOOK_URLS, now, pc, req_params,
                    fetch_tasks, read_tasks, stored_cal_entries_list,
                    current_cal_entries_list, changes_list, errors, idx, fanout_calls,
                    posts, puts, table_at_start, result, tg, prev_run, calendar,
                    refresh, telegram_server, other,
                    other_refresh >>

NextTable ==
    \/ TablePut
    \/ TableDelete

SpecTable == Init /\ [][NextTable]_vars


(***************************************************************************)
(* telegram_utils.send_telegram_updates_async                              *)
(***************************************************************************)
Chats == 1..MaxChats

\* values of os.environ['TELEGRAM_BOT_TOKEN']
TelegramTokens == { "", "123456:token" }

\* line 117: if not TELEGRAM_BOT_TOKEN
telegram_disabled(token) == token = ""

\* the call: lines 117-119 return [] at once when the token is empty;
\* otherwise line 129 enters  async with bot,  whose Bot.initialize() calls
\* get_me and raises out of the coroutine when that request fails, before
\* any send and whatever the subscribers are
TgCall ==
    /\ tg.pc \in { "idle", "done" }
    /\ \E token \in TelegramTokens, subscribers \in SUBSET Chats,
          enter_raises \in BOOLEAN :
        tg' = IF telegram_disabled(token)
              THEN [ pc |-> "done", token |-> token, subscribers |-> subscribers,
                     attempted |-> {}, delivered |-> {}, errors |-> << >>,
                     result |-> "returned" ]
              ELSE IF enter_raises
              THEN [ pc |-> "done", token |-> token, subscribers |-> subscribers,
                     attempted |-> {}, delivered |-> {}, errors |-> << >>,
                     result |-> "raised" ]
              ELSE [ pc |-> "sending", token |-> token, subscribers |-> subscribers,
                     attempted |-> {}, delivered |-> {}, errors |-> << >>,
                     result |-> "none" ]
    /\ UNCHANGED << event_configs, DISCORD_WEBHOOK_URLS, table, now, pc, req_params,
                    fetch_tasks, read_tasks, stored_cal_entries_list,
                    current_cal_entries_list, changes_list, errors, idx, fanout_calls,
                    posts, puts, table_at_start, result, prev_run, calendar,
                    refresh, telegram_server, other,
                    other_refresh >>

\* lines 130-131: one iteration of  for chat_id in subscribers: await
\* bot.send_message(...).  A rejected send raises out of the coroutine.
TgSend ==
    /\ tg.pc = "sending"
    /\ \E chat_id \in tg.subscribers \ tg.attempted, ok \in BOOLEAN :
        tg' = IF ok
              THEN [ tg EXCEPT !.attempted = @ \cup { chat_id },
                               !.delivered = @ \cup { chat_id } ]
              ELSE [ tg EXCEPT !.attempted = @ \cup { chat_id },
                               !.pc = "done", !.result = "raised" ]
    /\ UNCHANGED << event_configs, DISCORD_WEBHOOK_URLS, table, now, pc, req_params,
                    fetch_tasks, read_tasks, stored_cal_entries_list,
                    current_cal_entries_list, changes_list, errors, idx, fanout_calls,
                    posts, puts, table_at_start, result, prev_run, calendar,
                    refresh, telegram_server, other,
                    other_refresh >>

\* line 133: return []
TgReturn ==
    /\ tg.pc = "sending"
    /\ tg.subscribers \ tg.attempted = {}
    /\ tg' = [ tg EXCEPT !.pc = "done", !.result = "returned", !.errors = << >> ]
    /\ UNCHANGED << event_configs, DISCORD_WEBHOOK_URLS, table, now, pc, req_params,
                    fetch_tasks, read_tasks, stored_cal_entries_list,
                    current_cal_entries_list, changes_list, errors, idx, fanout_calls,
                    posts, puts, table_at_start, result, prev_run, calendar,
                    refresh, telegram_server, other,
                    other_refresh >>

InitTelegram ==
    /\ Init
    /\ event_configs = << OpenRecSkate, FigureSkatingClub >>
    /\ DISCORD_WEBHOOK_URLS = split(<< "hook1" >>)

NextTelegram ==
    \/ TgCall
    \/ TgSend
    \/ TgReturn

SpecTelegram == InitTelegram /\ [][NextTelegram]_vars

(***************************************************************************)
(* telegram_utils.refresh_telegram_subscribers_async                       *)
(* An update is [update_id, chat, type, text]: chat 0 stands for an update *)
(* without effective chat, the text of a message is a sequence of words    *)
(* (<<>> for a message without text).                                      *)
(***************************************************************************)
LastUpdateIdKey == << "telegram_last_update_id" >>

SubscribersKey == << "telegram_update_subscribers" >>

\* the chats that write to the bot
UpdateChats == { c \in Chats : c + c <= MaxChats }

\* what an update can be
UpdateShapes ==
    { [ type |-> "message", text |-> t ] :
        t \in { << >>, << "/Subscribe" >>, << "/unsubscribe" >>, << "hello" >> } }
    \cup { [ type |-> "my_chat_member", text |-> << >> ],
           [ type |-> "other", text |-> << >> ] }

\* the outcomes of bot.send_message: sent; rejected with Forbidden or
\* BadRequest; any other exception (TimedOut, NetworkError)
ReplyOutcomes == { "ok", "rejected", "raised" }

\* line 22: int(table.get('telegram_last_update_id') or -1)
read_last_update_id(tbl) ==
    LET v == table_get(tbl, LastUpdateIdKey)
    IN  IF v.none THEN -1 ELSE IF v.value = 0 THEN -1 ELSE v.value

\* lines 23-24: set(int(i) for i in (table.get('telegram_update_subscribers') or []))
read_update_subscribers(tbl) ==
    LET v == table_get(tbl, SubscribersKey)
    IN  IF v.none THEN {} ELSE Range(v.value)

\* line 67: list(update_subscribers)
RECURSIVE list_of(_)
list_of(S) ==
    IF S = {} THEN << >>
    ELSE LET m == CHOOSE x \in S : \A y \in S : x <= y
         IN  << m >> \o list_of(S \ { m })

\* mutant: the poll starts at the last update already seen
get_updates_offset_same(last_update_id) == last_update_id

\* line 28: offset=last_update_id + 1
get_updates_offset(last_update_id) == last_update_id + 1

\* getUpdates: the updates held whose id is at least the offset; the server
\* forgets the ones below it
get_updates(pending, offset) == SelectSeq(pending, LAMBDA u : u.update_id >= offset)

\* line 30
max(a, b) == IF a >= b THEN a ELSE b

\* mutant: a rejected reply leaves the subscribers as they are
on_rejected_keep(subscribers, chat_id) == subscribers

\* lines 60-63: except (Forbidden, BadRequest): update_subscribers.discard(chat)
on_rejected(subscribers, chat_id) == subscribers \ { chat_id }

\* lines 32-63: the body of the loop for one update, given what
\* bot.send_message does if it is called
process_update(subscribers, u, outcome) ==
    LET skip == [ subscribers |-> subscribers, sent |-> FALSE, raised |-> FALSE ]
        reply(subs) ==
            IF outcome = "ok"
            THEN [ subscribers |-> subs, sent |-> TRUE, raised |-> FALSE ]
            ELSE IF outcome = "rejected"
            THEN [ subscribers |-> on_rejected(subs, u.chat), sent |-> TRUE,
                   raised |-> FALSE ]
            ELSE [ subscribers |-> subs, sent |-> TRUE, raised |-> TRUE ]
    IN  IF u.chat = 0 THEN skip
        ELSE IF u.type = "message"
        THEN IF u.text = << >> THEN skip
             ELSE LET message_lower == lower(u.text)
                  IN  IF Contains(<< "/unsubscribe" >>, message_lower)
                      THEN reply(subscribers \ { u.chat })
                      ELSE IF Contains(<< "/subscribe" >>, message_lower)
                      THEN reply(subscribers \cup { u.chat })
                      ELSE reply(subscribers)
        ELSE IF u.type = "my_chat_member" THEN reply(subscribers)
        ELSE skip

\* the ids of a list of updates
update_ids(updates) == { updates[k].update_id : k \in 1..Len(updates) }

\* somebody writes to the bot, or the bot is added to or removed from a chat
ServerReceives ==
    /\ telegram_server.next_id <= MaxUpdates
    /\ \E chat \in UpdateChats \cup { 0 }, shape \in UpdateShapes :
        /\ chat = 0 => shape.type = "other"
        /\ telegram_server' =
             [ next_id |-> telegram_server.next_id + 1,
               pending |-> Append(telegram_server.pending,
                   [ update_id |-> telegram_server.next_id, chat |-> chat,
                     type |-> shape.type, text |-> shape.text ]) ]
    /\ UNCHANGED << event_configs, DISCORD_WEBHOOK_URLS, table, now, pc, req_params,
                    fetch_tasks, read_tasks, stored_cal_entries_list,
                    current_cal_entries_list, changes_list, errors, idx, fanout_calls,
                    posts, puts, table_at_start, result, tg, prev_run, calendar,
                    refresh, other,
                    other_refresh >>

\* lines 18-22: the token test and the read of telegram_last_update_id; a
\* table.get that raises ends the coroutine with nothing changed.  seen
\* collects the updates of the refreshes that returned so far, before is the
\* item as this read found it.
RefreshCall ==
    /\ refresh.pc \in { "idle", "done" }
    /\ \E token \in TelegramTokens, get_raises \in BOOLEAN :
        LET seen == refresh.seen \cup
                      (IF refresh.result = "returned" THEN update_ids(refresh.updates)
                       ELSE {})
            called == [ pc |-> "done", token |-> token, last_update_id |-> -1,
                        update_subscribers |-> {}, updates |-> << >>, i |-> 0,
                        replies |-> << >>, result |-> "raised",
                        before |-> table_get(table, LastUpdateIdKey), seen |-> seen ]
        IN  /\ refresh' =
                 IF telegram_disabled(token)
                 THEN [ called EXCEPT !.result = "disabled" ]
                 ELSE IF get_raises
                 THEN called
                 ELSE [ called EXCEPT !.pc = "read_subscribers",
                                      !.last_update_id = read_last_update_id(table),
                                      !.result = "none" ]
            /\ other_refresh' =
                 IF telegram_disabled(token) THEN other_refresh
                 ELSE [ other_refresh EXCEPT
                          !.overlapped = @ \/ other_refresh.pc \notin { "idle", "done" },
                          !.followed = @ \/ other_refresh.pc # "idle" ]
    /\ UNCHANGED << event_configs, DISCORD_WEBHOOK_URLS, table, now, pc, req_params,
                    fetch_tasks, read_tasks, stored_cal_entries_list,
                    current_cal_entries_list, changes_list, errors, idx, fanout_calls,
                    posts, puts, table_at_start, result, tg, prev_run, calendar,
                    telegram_server, other >>

\* lines 23-24: the read of telegram_update_subscribers, a request of its own
RefreshReadSubscribers ==
    /\ refresh.pc = "read_subscribers"
    /\ \E get_raises \in BOOLEAN :
        refresh' =
          IF get_raises
          THEN [ refresh EXCEPT !.pc = "done", !.result = "raised" ]
          ELSE [ refresh EXCEPT !.pc = "poll",
                                !.update_subscribers = read_update_subscribers(table) ]
    /\ UNCHANGED << event_configs, DISCORD_WEBHOOK_URLS, table, now, pc, req_params,
                    fetch_tasks, read_tasks, stored_cal_entries_list,
                    current_cal_entries_list, changes_list, errors, idx, fanout_calls,
                    posts, puts, table_at_start, result, tg, prev_run, calendar,
                    telegram_server, other, other_refresh >>

\* lines 27-28: entering  async with bot  and bot.get_updates; a
\* Bot.initialize or get_updates that raises ends the coroutine with nothing
\* changed (get_updates_raises)
RefreshGetUpdates ==
    /\ refresh.pc = "poll"
    /\ \E get_updates_raises \in BOOLEAN :
        LET updates == get_updates(telegram_server.pending,
                                   get_updates_offset(refresh.last_update_id))
        IN  IF get_updates_raises
            THEN /\ refresh' = [ refresh EXCEPT !.pc = "done", !.result = "raised" ]
                 /\ UNCHANGED telegram_server
            ELSE /\ refresh' = [ refresh EXCEPT !.pc = IF updates = << >> THEN "persist"
                                                      ELSE "loop",
                                               !.updates = updates, !.i = 1 ]
                 /\ telegram_server' = [ telegram_server EXCEPT !.pending = updates ]
    /\ UNCHANGED << event_configs, DISCORD_WEBHOOK_URLS, table, now, pc, req_params,
                    fetch_tasks, read_tasks, stored_cal_entries_list,
                    current_cal_entries_list, changes_list, errors, idx, fanout_calls,
                    posts, puts, table_at_start, result, tg, prev_run, calendar, other,
                    other_refresh >>

\* lines 29-63: one iteration of  for update in updates
RefreshUpdate ==
    /\ refresh.pc = "loop"
    /\ \E outcome \in ReplyOutcomes :
        LET u == refresh.updates[refresh.i]
            r == process_update(refresh.update_subscribers, u, outcome)
            last_update_id == max(refresh.last_update_id, u.update_id)
        IN  refresh' =
              IF r.raised
              THEN [ refresh EXCEPT !.pc = "done", !.result = "raised",
                                    !.last_update_id = last_update_id,
                                    !.replies = Append(@, [ update_id |-> u.update_id,
                                        chat |-> u.chat, outcome |-> outcome ]) ]
              ELSE [ refresh EXCEPT
                       !.pc = IF refresh.i < Len(refresh.updates) THEN "loop"
                              ELSE "persist",
                       !.i = @ + 1,
                       !.last_update_id = last_update_id,
                       !.update_subscribers = r.subscribers,
                       !.replies = Append(@, [ update_id |-> u.update_id,
                           chat |-> u.chat,
                           outcome |-> IF r.sent THEN outcome ELSE "none" ]) ]
    /\ UNCHANGED << event_configs, DISCORD_WEBHOOK_URLS, table, now, pc, req_params,
                    fetch_tasks, read_tasks, stored_cal_entries_list,
                    current_cal_entries_list, changes_list, errors, idx, fanout_calls,
                    posts, puts, table_at_start, result, tg, prev_run, calendar,
                    telegram_server, other,
                    other_refresh >>

\* how a table.put request can end: the item written and the call returned,
\* or the call raised with the item written or not
PutOutcomes == { "ok", "raised_unwritten", "raised_written" }

\* line 66: table.put('telegram_last_update_id', last_update_id); when it
\* raises the coroutine ends there and line 67 is never reached
RefreshPutLastUpdateId ==
    /\ refresh.pc = "persist"
    /\ \E outcome \in PutOutcomes :
        /\ table' = IF outcome = "raised_unwritten" THEN table
                    ELSE table_put(table, LastUpdateIdKey, refresh.last_update_id)
        /\ refresh' = IF outcome = "ok"
                      THEN [ refresh EXCEPT !.pc = "persist_subscribers" ]
                      ELSE [ refresh EXCEPT !.pc = "done", !.result = "raised_in_put" ]
    /\ UNCHANGED << event_configs, DISCORD_WEBHOOK_URLS, now, pc, req_params,
                    fetch_tasks, read_tasks, stored_cal_entries_list,
                    current_cal_entries_list, changes_list, errors, idx, fanout_calls,
                    posts, puts, table_at_start, result, tg, prev_run, calendar,
                    telegram_server, other,
                    other_refresh >>

\* lines 67-69: table.put('telegram_update_subscribers', list(...)) with the
\* cursor of line 66 already in the table, then the return of update_subscribers
RefreshPutSubscribers ==
    /\ refresh.pc = "persist_subscribers"
    /\ \E outcome \in PutOutcomes :
        /\ table' = IF outcome = "raised_unwritten" THEN table
                    ELSE table_put(table, SubscribersKey,
                                   list_of(refresh.update_subscribers))
        /\ refresh' = IF outcome = "ok"
                      THEN [ refresh EXCEPT !.pc = "done", !.result = "returned" ]
                      ELSE [ refresh EXCEPT !.pc = "done", !.result = "raised_in_put" ]
    /\ UNCHANGED << event_configs, DISCORD_WEBHOOK_URLS, now, pc, req_params,
                    fetch_tasks, read_tasks, stored_cal_entries_list,
                    current_cal_entries_list, changes_list, errors, idx, fanout_calls,
                    posts, puts, table_at_start, result, tg, prev_run, calendar,
                    telegram_server, other,
                    other_refresh >>

\* the refreshes of one caller, one after the other, each request of a
\* refresh a step of its own; two invocations at the same time are
\* SpecRefreshOverlap below
InitRefresh ==
    /\ Init
    /\ event_configs = << OpenRecSkate, FigureSkatingClub >>
    /\ DISCORD_WEBHOOK_URLS = split(<< "hook1" >>)

NextRefresh ==
    \/ ServerReceives
    \/ RefreshCall
    \/ RefreshReadSubscribers
    \/ RefreshGetUpdates
    \/ RefreshUpdate
    \/ RefreshPutLastUpdateId
    \/ RefreshPutSubscribers

SpecRefresh == InitRefresh /\ [][NextRefresh]_vars

(***************************************************************************)
(* Two invocations of refresh_telegram_subscribers_async over one table    *)
(* and one bot.  asyncio.run starts an event loop per call and nothing     *)
(* locks the table, so a second invocation (another process running the    *)
(* same function) can be called at any moment and each of its requests     *)
(* falls between any two requests of the first.  The second invocation is  *)
(* the same code; its locals are the fields of other_refresh and each of   *)
(* its actions is the first invocation's action of the same name.          *)
(***************************************************************************)
\* what the chats send in these runs: a chat asks to be subscribed
SubscribeShapes == { [ type |-> "message", text |-> << "/Subscribe" >> ] }

\* a chat writes /Subscribe to the bot
ServerReceivesSubscribe ==
    /\ telegram_server.next_id <= MaxUpdates
    /\ \E chat \in UpdateChats, shape \in SubscribeShapes :
        telegram_server' =
          [ next_id |-> telegram_server.next_id + 1,
            pending |-> Append(telegram_server.pending,
                [ update_id |-> telegram_server.next_id, chat |-> chat,
                  type |-> shape.type, text |-> shape.text ]) ]
    /\ UNCHANGED << event_configs, DISCORD_WEBHOOK_URLS, table, now, pc, req_params,
                    fetch_tasks, read_tasks, stored_cal_entries_list,
                    current_cal_entries_list, changes_list, errors, idx, fanout_calls,
                    posts, puts, table_at_start, result, tg, prev_run, calendar,
                    refresh, other, other_refresh >>

\* the variables an action of the second refresh leaves alone, but for the
\* table and the Bot API server
not_of_other_refresh ==
    << event_configs, DISCORD_WEBHOOK_URLS, now, pc, req_params, fetch_tasks,
       read_tasks, stored_cal_entries_list, current_cal_entries_list, changes_list,
       errors, idx, fanout_calls, posts, puts, table_at_start, result, tg, prev_run,
       calendar, refresh, other >>

\* lines 18-22 of the second invocation
OtherRefreshCall ==
    /\ other_refresh.pc = "idle"
    /\ \E token \in TelegramTokens, get_raises \in BOOLEAN :
        LET called == [ other_refresh EXCEPT
                          !.pc = "done", !.token = token, !.result = "raised",
                          !.before = table_get(table, LastUpdateIdKey),
                          !.overlapped = refresh.pc \notin { "idle", "done" } ]
        IN  other_refresh' =
              IF telegram_disabled(token)
              THEN [ called EXCEPT !.result = "disabled", !.overlapped = FALSE ]
              ELSE IF get_raises
              THEN called
              ELSE [ called EXCEPT !.pc = "read_subscribers",
                                   !.last_update_id = read_last_update_id(table),
                                   !.result = "none" ]
    /\ UNCHANGED << not_of_other_refresh, table, telegram_server >>

\* lines 23-24 of the second invocation
OtherRefreshReadSubscribers ==
    /\ other_refresh.pc = "read_subscribers"
    /\ \E get_raises \in BOOLEAN :
        other_refresh' =
          IF get_raises
          THEN [ other_refresh EXCEPT !.pc = "done", !.result = "raised" ]
          ELSE [ other_refresh EXCEPT
                   !.pc = "poll",
                   !.update_subscribers = read_update_subscribers(table) ]
    /\ UNCHANGED << not_of_other_refresh, table, telegram_server >>

\* lines 27-28 of the second invocation
OtherRefreshGetUpdates ==
    /\ other_refresh.pc = "poll"
    /\ \E get_updates_raises \in BOOLEAN :
        LET updates == get_updates(telegram_server.pending,
                                   get_updates_offset(other_refresh.last_update_id))
        IN  IF get_updates_raises
            THEN /\ other_refresh' =
                      [ other_refresh EXCEPT !.pc = "done", !.result = "raised" ]
                 /\ UNCHANGED telegram_server
            ELSE /\ other_refresh' =
                      [ other_refresh EXCEPT
                          !.pc = IF updates = << >> THEN "persist" ELSE "loop",
                          !.updates = updates, !.i = 1 ]
                 /\ telegram_server' = [ telegram_server EXCEPT !.pending = updates ]
    /\ UNCHANGED << not_of_other_refresh, table >>

\* lines 29-63 of the second invocation: one iteration of the loop
OtherRefreshUpdate ==
    /\ other_refresh.pc = "loop"
    /\ \E outcome \in ReplyOutcomes :
        LET u == other_refresh.updates[other_refresh.i]
            r == process_update(other_refresh.update_subscribers, u, outcome)
            last_update_id == max(other_refresh.last_update_id, u.update_id)
        IN  other_refresh' =
              IF r.raised
              THEN [ other_refresh EXCEPT !.pc = "done", !.result = "raised",
                                          !.last_update_id = last_update_id ]
              ELSE [ other_refresh EXCEPT
                       !.pc = IF other_refresh.i < Len(other_refresh.updates)
                              THEN "loop" ELSE "persist",
                       !.i = @ + 1,
                       !.last_update_id = last_update_id,
                       !.update_subscribers = r.subscribers ]
    /\ UNCHANGED << not_of_other_refresh, table, telegram_server >>

\* line 66 of the second invocation
OtherRefreshPutLastUpdateId ==
    /\ other_refresh.pc = "persist"
    /\ \E outcome \in PutOutcomes :
        /\ table' = IF outcome = "raised_unwritten" THEN table
                    ELSE table_put(table, LastUpdateIdKey, other_refresh.last_update_id)
        /\ other_refresh' =
             IF outcome = "ok"
             THEN [ other_refresh EXCEPT !.pc = "persist_subscribers" ]
             ELSE [ other_refresh EXCEPT !.pc = "done", !.result = "raised_in_put" ]
    /\ UNCHANGED << not_of_other_refresh, telegram_server >>

\* lines 67-69 of the second invocation
OtherRefreshPutSubscribers ==
    /\ other_refresh.pc = "persist_subscribers"
    /\ \E outcome \in PutOutcomes :
        /\ table' = IF outcome = "raised_unwritten" THEN table
                    ELSE table_put(table, SubscribersKey,
                                   list_of(other_refresh.update_subscribers))
        /\ other_refresh' =
             IF outcome = "ok"
             THEN [ other_refresh EXCEPT !.pc = "done", !.result = "returned" ]
             ELSE [ other_refresh EXCEPT !.pc = "done", !.result = "raised_in_put" ]
    /\ UNCHANGED << not_of_other_refresh, telegram_server >>

NextRefreshOverlap ==
    \/ ServerReceivesSubscribe
    \/ RefreshCall
    \/ RefreshReadSubscribers
    \/ RefreshGetUpdates
    \/ RefreshUpdate
    \/ RefreshPutLastUpdateId
    \/ RefreshPutSubscribers
    \/ OtherRefreshCall
    \/ OtherRefreshReadSubscribers
    \/ OtherRefreshGetUpdates
    \/ OtherRefreshUpdate
    \/ OtherRefreshPutLastUpdateId
    \/ OtherRefreshPutSubscribers

SpecRefreshOverlap == InitRefresh /\ [][NextRefreshOverlap]_vars


(***************************************************************************)
(* Vocabulary of the properties                                            *)
(***************************************************************************)
\* the run has fanned in without a fetch error and has filtered and diffed
HasDiffed == pc \in { "notify", "persist", "done" } /\ current_cal_entries_list # << >>

ConfigIds == 1..Len(event_configs)

RecordNameOf(i) == make_record_name(event_configs[i])

\* entries of configuration i that appeared / disappeared and start after now
AppearedUpcoming(i) ==
    { e \in Range(current_cal_entries_list[i]) :
        e \notin Range(stored_cal_entries_list[i]) /\ parse(e.start) > now }

DisappearedUpcoming(i) ==
    { e \in Range(stored_cal_entries_list[i]) :
        e \notin Range(current_cal_entries_list[i]) /\ parse(e.start) > now }

\* the change list of configuration i reports entry e in its block of that kind
ReportedAs(i, kind, e) ==
    \E k \in 1..Len(changes_list[i]) :
        /\ changes_list[i][k].kind = kind
        /\ InList(pretty_print_time_range(e.start, e.end), changes_list[i][k].value)

SnapshotEntries(i) ==
    Range(current_cal_entries_list[i]) \cup Range(stored_cal_entries_list[i])

PutsFor(id) == { j \in 1..Len(puts) : puts[j].id = id }

\* configuration i's key is as it was when the run started
KeyAsAtStart(i) ==
    /\ (RecordNameOf(i) \in DOMAIN table) <=> (RecordNameOf(i) \in DOMAIN table_at_start)
    /\ RecordNameOf(i) \in DOMAIN table =>
         table[RecordNameOf(i)] = table_at_start[RecordNameOf(i)]

\* send_discord_message was called and has returned its error list
FanoutReturned ==
    fanout_calls = 1 /\ pc \in { "persist", "done" } /\ result # Raised

FailedPosts == { k \in 1..Len(posts) : ~ posts[k].raised /\ posts[k].status_code # 204 }

(***************************************************************************)
(* C1  Persistence gating: when fanout has returned a non-empty error list *)
(* the run has made no put, the table is as it was when the run started,   *)
(* and the run has returned a failure result carrying the errors.          *)
(***************************************************************************)
C1_PersistenceGating ==
    (FanoutReturned /\ errors # << >>) =>
        /\ puts = << >>
        /\ table = table_at_start
        /\ pc = "done"
        /\ result = DeliveryError(errors)

\* a delivery failed in a run whose snapshot differs from the stored one
C1_Witness ==
    /\ pc = "done"
    /\ result.statusCode = 500
    /\ errors # << >>
    /\ \E i \in ConfigIds : current_cal_entries_list[i] # stored_cal_entries_list[i]

(***************************************************************************)
(* C2  Diff correctness: an entry of a snapshot is reported as New iff it  *)
(* is in the current snapshot, not in the stored one, and starts strictly  *)
(* after now; as Cancelled iff it is in the stored one, not in the current *)
(* one, and starts strictly after now.  Every reported time range belongs  *)
(* to such an entry, so an entry starting at or before now is never        *)
(* reported.                                                               *)
(***************************************************************************)
C2_DiffCorrectness ==
    HasDiffed =>
        \A i \in ConfigIds :
            /\ \A e \in SnapshotEntries(i) :
                /\ ReportedAs(i, "New", e) <=> e \in AppearedUpcoming(i)
                /\ ReportedAs(i, "Cancelled", e) <=> e \in DisappearedUpcoming(i)
            /\ \A k \in 1..Len(changes_list[i]) :
                /\ changes_list[i][k].kind \in { "New", "Cancelled" }
                /\ changes_list[i][k].value # << >>
                /\ \A n \in 1..Len(changes_list[i][k].value) :
                    \E e \in (IF changes_list[i][k].kind = "New"
                              THEN AppearedUpcoming(i) ELSE DisappearedUpcoming(i)) :
                        pretty_print_time_range(e.start, e.end) = changes_list[i][k].value[n]

\* one run reports a New entry, passes over an appeared entry that starts
\* exactly at now, and reports a Cancelled entry
C2_Witness ==
    /\ HasDiffed
    /\ \E i \in ConfigIds :
        /\ \E e \in AppearedUpcoming(i) : ReportedAs(i, "New", e)
        /\ \E f \in Range(current_cal_entries_list[i]) :
            /\ f \notin Range(stored_cal_entries_list[i])
            /\ parse(f.start) = now
            /\ ~ ReportedAs(i, "New", f)
    /\ \E j \in ConfigIds :
        \E g \in DisappearedUpcoming(j) : ReportedAs(j, "Cancelled", g)

(***************************************************************************)
(* C3  No-op idempotence: a configuration whose current snapshot equals    *)
(* its stored snapshot has no change block and gets no put; when that is   *)
(* so for every configuration the run posts nothing and puts nothing.      *)
(***************************************************************************)
C3_NoOpIdempotence ==
    HasDiffed =>
        /\ \A i \in ConfigIds :
            current_cal_entries_list[i] = stored_cal_entries_list[i] =>
                /\ changes_list[i] = << >>
                /\ PutsFor(RecordNameOf(i)) = {}
        /\ (\A i \in ConfigIds :
                current_cal_entries_list[i] = stored_cal_entries_list[i]) =>
                /\ fanout_calls = 0
                /\ posts = << >>
                /\ puts = << >>
                /\ table = table_at_start

\* a run that found a non-empty snapshot unchanged has returned success
C3_Witness ==
    /\ pc = "done"
    /\ result = Success(FALSE)
    /\ \A i \in ConfigIds :
        /\ current_cal_entries_list[i] = stored_cal_entries_list[i]
        /\ current_cal_entries_list[i] # << >>

(***************************************************************************)
(* C4  A failed fetch is fatal: once a fetch of the run has raised, the    *)
(* run filters and diffs nothing, posts nothing, puts nothing, and returns *)
(* the fetch-failure result.                                               *)
(***************************************************************************)
C4_FetchFailureIsFatal ==
    (\E k \in 1..Len(fetch_tasks) : fetch_tasks[k].st = "raised") =>
        /\ pc \in { "pool", "done" }
        /\ pc = "done" => result = FetchError
        /\ current_cal_entries_list = << >>
        /\ changes_list = << >>
        /\ fanout_calls = 0
        /\ posts = << >>
        /\ puts = << >>
        /\ table = table_at_start

\* one fetch failed while another returned entries, and the run has ended
C4_Witness ==
    /\ pc = "done"
    /\ result = FetchError
    /\ \E k \in 1..Len(fetch_tasks) : fetch_tasks[k].st = "raised"
    /\ \E k \in 1..Len(fetch_tasks) :
        fetch_tasks[k].st = "done" /\ fetch_tasks[k].body # << >>

(***************************************************************************)
(* C5  Fetch dedupe: a run that got past the construction of the table    *)
(* object (line 285) issues exactly one fetch per distinct                 *)
(* ReqParam, as many fetches as there are distinct ReqParams, and every    *)
(* configuration is filtered from the one result of its ReqParam.          *)
(***************************************************************************)
C5_FetchDedupe ==
    (pc # "idle" /\ result # RaisedInCreate) =>
        /\ Len(fetch_tasks) = Cardinality(Range(req_params))
        /\ \A i \in ConfigIds :
            /\ Cardinality({ k \in 1..Len(fetch_tasks) : fetch_tasks[k].p = req_params[i] }) = 1
            /\ HasDiffed =>
                \E k \in 1..Len(fetch_tasks) :
                    /\ fetch_tasks[k].p = req_params[i]
                    /\ current_cal_entries_list[i] =
                         filter_calendar_entries(event_configs[i], fetch_tasks[k].body)

\* two configurations with the same ReqParam shared one fetch, and both got
\* entries out of it
C5_Witness ==
    /\ HasDiffed
    /\ Len(event_configs) = 2
    /\ req_params[1] = req_params[2]
    /\ Len(fetch_tasks) = 1
    /\ \A i \in ConfigIds : current_cal_entries_list[i] # << >>

(***************************************************************************)
(* C6  Channel isolation: Discord fanout posts once to every configured    *)
(* webhook URL, in order, whatever the earlier URLs answered, and the      *)
(* error list it returns has exactly one record per URL that answered      *)
(* with a status other than 204, naming that URL, and none for a 204.      *)
(***************************************************************************)
C6_ChannelIsolation ==
    /\ (pc = "notify" /\ result # Raised) => Len(posts) = idx - 1
    /\ FanoutReturned =>
        /\ Len(posts) = Len(DISCORD_WEBHOOK_URLS)
        /\ \A k \in 1..Len(posts) : posts[k].url = DISCORD_WEBHOOK_URLS[k]
    /\ (fanout_calls = 1 /\ result # Raised) =>
        /\ Len(errors) = Cardinality(FailedPosts)
        /\ \A k \in FailedPosts :
            Cardinality({ j \in 1..Len(errors) :
                            /\ errors[j].webhook_url = posts[k].url
                            /\ errors[j].status_code = posts[k].status_code }) = 1
        /\ \A j \in 1..Len(errors) :
            \E k \in FailedPosts : errors[j].webhook_url = posts[k].url

\* the first of two webhooks answered 500, the second was still posted to and
\* answered 204, and the one error record names the first
C6_Witness ==
    /\ FanoutReturned
    /\ Len(posts) = 2
    /\ posts[1].status_code = 500
    /\ posts[2].status_code = 204
    /\ Len(errors) = 1
    /\ errors[1].webhook_url = posts[1].url


(***************************************************************************)
(* C7  Telegram isolation: when send_telegram_updates_async has ended and  *)
(* a send to some chat was rejected, every subscribed chat has been sent   *)
(* to, the coroutine has returned (not raised), and its error list has one *)
(* record per rejected send.  The code has no try/except around            *)
(* bot.send_message: the first rejected send raises out of the loop.       *)
(***************************************************************************)
C7_TelegramIsolation ==
    (tg.pc = "done" /\ tg.token # "" /\ tg.attempted # tg.delivered) =>
        /\ tg.attempted = tg.subscribers
        /\ tg.result = "returned"
        /\ Len(tg.errors) = Cardinality(tg.attempted \ tg.delivered)

(***************************************************************************)
(* C8  An unconfigured channel is a no-op: with DISCORD_WEBHOOK_URLS empty *)
(* the run makes no delivery attempt, does not fail by it, and goes on to  *)
(* persist.  "".split(",") is [""], so the code posts to the URL "".       *)
(***************************************************************************)
C8_UnconfiguredChannelIsNoOp ==
    DISCORD_WEBHOOK_URLS = split(<< >>) =>
        /\ posts = << >>
        /\ result # Raised
        /\ (HasDiffed /\ pc = "done") => result.statusCode = 200

(***************************************************************************)
(* C9  In a run without fetch error send_discord_message is called iff     *)
(* some configuration has an appeared or disappeared upcoming entry, and   *)
(* at most once; it posts at most once per webhook, every post carrying    *)
(* the change blocks of all configurations and one schedule block per      *)
(* configuration; the success result's flag says whether it was called.    *)
(***************************************************************************)
C9_FanoutIffChanges ==
    HasDiffed =>
        /\ fanout_calls =
             (IF \E i \in ConfigIds :
                    AppearedUpcoming(i) # {} \/ DisappearedUpcoming(i) # {}
              THEN 1 ELSE 0)
        /\ fanout_calls = 0 => posts = << >>
        /\ Len(posts) <= Len(DISCORD_WEBHOOK_URLS)
        /\ \A k \in 1..Len(posts) :
            /\ posts[k].url = DISCORD_WEBHOOK_URLS[k]
            /\ \A i \in ConfigIds :
                /\ \A n \in 1..Len(changes_list[i]) :
                    InList(changes_list[i][n], posts[k].embeds.changes)
                /\ posts[k].embeds.schedules[i].event_name = event_configs[i].event_name
                /\ posts[k].embeds.schedules[i].value =
                     time_ranges(current_cal_entries_list[i])
            /\ Len(posts[k].embeds.schedules) = Len(event_configs)
        /\ result.statusCode = 200 => result.message_sent = (fanout_calls = 1)

\* both configurations changed, each of two webhooks got the one batched post,
\* and the run returned success with the flag set
C9_Witness ==
    /\ pc = "done"
    /\ result = Success(TRUE)
    /\ Len(posts) = 2
    /\ \A i \in ConfigIds : changes_list[i] # << >>

(***************************************************************************)
(* C10  As claimed: in a run that got to the put loop (no fetch error, no  *)
(* fanout error) and has ended, a configuration's record was put iff its   *)
(* current snapshot differs from its stored one, the value put is the      *)
(* current snapshot, and the record of a configuration that does not       *)
(* differ is as it was when the run started.                               *)
(***************************************************************************)
\* the run got to the put loop and has left it, by the return of line 343 or
\* by an exception of table.put
LeftPutLoop == pc = "done" /\ (result.statusCode = 200 \/ result = RaisedInPut)

C10_PersistFrame ==
    LeftPutLoop =>
        /\ \A j \in 1..Len(puts) : \E i \in ConfigIds : puts[j].id = RecordNameOf(i)
        /\ \A i \in ConfigIds :
            LET id == RecordNameOf(i)
                changed == current_cal_entries_list[i] # stored_cal_entries_list[i]
            IN  /\ (PutsFor(id) # {}) <=> changed
                /\ \A j \in PutsFor(id) : puts[j].value = current_cal_entries_list[i]
                /\ ~ changed => KeyAsAtStart(i)

(***************************************************************************)
(* C10  Amended: when the run has returned success, a configuration's      *)
(* record was put iff its current snapshot differs from its stored one,    *)
(* once and with the current snapshot as value, and then holds it; the     *)
(* record of a configuration that does not differ is as it was when the    *)
(* run started.  When a put raised, the loop ended at the failing          *)
(* configuration, which differs: among the configurations before it the    *)
(* same iff holds and the differing ones hold their current snapshot; the  *)
(* failing one was put once with its current snapshot and holds the old or *)
(* the current one; the configurations after it were not put, differing or *)
(* not, and are as they were.                                              *)
(***************************************************************************)
C10_PersistFrameUnlessPutRaises ==
    /\ (pc = "done" /\ result.statusCode = 200) =>
        /\ \A j \in 1..Len(puts) : \E i \in ConfigIds : puts[j].id = RecordNameOf(i)
        /\ \A i \in ConfigIds :
            LET id == RecordNameOf(i)
                changed == current_cal_entries_list[i] # stored_cal_entries_list[i]
            IN  /\ (PutsFor(id) # {}) <=> changed
                /\ Cardinality(PutsFor(id)) <= 1
                /\ \A j \in PutsFor(id) : puts[j].value = current_cal_entries_list[i]
                /\ IF changed
                   THEN id \in DOMAIN table /\ table[id] = current_cal_entries_list[i]
                   ELSE KeyAsAtStart(i)
    /\ (pc = "done" /\ result = RaisedInPut) =>
        /\ puts # << >>
        /\ \A j \in 1..Len(puts) : \E i \in ConfigIds : puts[j].id = RecordNameOf(i)
        /\ \E f \in ConfigIds :
            /\ current_cal_entries_list[f] # stored_cal_entries_list[f]
            /\ puts[Len(puts)].id = RecordNameOf(f)
            /\ KeyAsAtStart(f) \/ table[RecordNameOf(f)] = current_cal_entries_list[f]
            /\ \A i \in ConfigIds :
                LET id == RecordNameOf(i)
                    changed == current_cal_entries_list[i] # stored_cal_entries_list[i]
                IN  /\ Cardinality(PutsFor(id)) <= 1
                    /\ \A j \in PutsFor(id) : puts[j].value = current_cal_entries_list[i]
                    /\ i < f => /\ (PutsFor(id) # {}) <=> changed
                                /\ IF changed
                                   THEN id \in DOMAIN table
                                        /\ table[id] = current_cal_entries_list[i]
                                   ELSE KeyAsAtStart(i)
                    /\ i = f => PutsFor(id) # {}
                    /\ i > f => PutsFor(id) = {} /\ KeyAsAtStart(i)

\* both configurations differ: the first one's snapshot was put and is in the
\* table, the second one's put raised without writing, and its record is as
\* it was when the run started
C10_Witness ==
    /\ pc = "done"
    /\ result = RaisedInPut
    /\ Len(puts) = 2
    /\ puts[1].id = RecordNameOf(1)
    /\ puts[2].id = RecordNameOf(2)
    /\ table[RecordNameOf(1)] = current_cal_entries_list[1]
    /\ current_cal_entries_list[2] # stored_cal_entries_list[2]
    /\ KeyAsAtStart(2)

(***************************************************************************)
(* C11  Filter before diff: every entry of every snapshot in the table     *)
(* satisfies the title predicate of the configuration that owns the key,   *)
(* and every current snapshot handed to get_event_changes holds only       *)
(* entries its configuration's predicate accepts.                          *)
(***************************************************************************)
C11_SnapshotsFiltered ==
    /\ \A i \in ConfigIds :
         RecordNameOf(i) \in DOMAIN table =>
           \A e \in Range(table[RecordNameOf(i)]) : event_filter(event_configs[i], e)
    /\ HasDiffed =>
         \A i \in ConfigIds :
           \A e \in Range(current_cal_entries_list[i]) : event_filter(event_configs[i], e)

\* a successful run fetched an entry the figure skating predicate rejects
\* (a HOLD) next to one it accepts, and has persisted the accepted one
C11_Witness ==
    /\ pc = "done"
    /\ result.statusCode = 200
    /\ \E k \in 1..Len(fetch_tasks) : \E e \in Range(fetch_tasks[k].body) :
         /\ Contains(<< "hold" >>, lower(e.title))
         /\ ~ event_filter(event_configs[2], e)
    /\ puts # << >>
    /\ RecordNameOf(2) \in DOMAIN table
    /\ table[RecordNameOf(2)] # << >>
    /\ table[RecordNameOf(2)] = current_cal_entries_list[2]

(***************************************************************************)
(* C15  Fan-in before processing: while a submitted fetch or read is still *)
(* pending the run has filtered nothing, diffed nothing, posted nothing    *)
(* and put nothing; once it has gone on, every task has completed, each    *)
(* configuration's current list is the filter of the complete list fetched *)
(* for its ReqParam, its stored list is its own snapshot as the table held *)
(* it, and its change list is the diff of exactly these two.               *)
(***************************************************************************)
C15_FanInBeforeProcessing ==
    /\ (\/ \E k \in 1..Len(fetch_tasks) : fetch_tasks[k].st = "pending"
         \/ \E j \in 1..Len(read_tasks) : read_tasks[j].st = "pending") =>
          /\ pc = "pool"
          /\ current_cal_entries_list = << >>
          /\ stored_cal_entries_list = << >>
          /\ changes_list = << >>
          /\ fanout_calls = 0
          /\ posts = << >>
          /\ puts = << >>
          /\ table = table_at_start
    /\ HasDiffed =>
          \A i \in ConfigIds :
            /\ \E k \in 1..Len(fetch_tasks) :
                 /\ fetch_tasks[k].p = req_params[i]
                 /\ fetch_tasks[k].st = "done"
                 /\ current_cal_entries_list[i] =
                      SelectSeq(fetch_tasks[k].body,
                                LAMBDA e : event_filter(event_configs[i], e))
            /\ read_tasks[i].st = "done"
            /\ stored_cal_entries_list[i] = read_tasks[i].value
            /\ stored_cal_entries_list[i] =
                 (IF RecordNameOf(i) \in DOMAIN table_at_start
                  THEN table_at_start[RecordNameOf(i)] ELSE << >>)
            /\ changes_list[i] =
                 get_event_changes(event_configs[i], stored_cal_entries_list[i],
                                   current_cal_entries_list[i], now)

\* two distinct fetches and two reads have all completed, in a run that found
\* a stored snapshot and a change, and the run has gone on to notify
C15_Witness ==
    /\ pc = "notify"
    /\ Len(fetch_tasks) = 2
    /\ \A k \in 1..Len(fetch_tasks) : fetch_tasks[k].st = "done" /\ fetch_tasks[k].body # << >>
    /\ \A j \in 1..Len(read_tasks) : read_tasks[j].st = "done"
    /\ \E i \in ConfigIds : stored_cal_entries_list[i] # << >>
    /\ \E i \in ConfigIds : changes_list[i] # << >>

(***************************************************************************)
(* C17  Order and multiplicity: the New block of a configuration lists the *)
(* appeared upcoming entries in the order of the current snapshot, the     *)
(* Cancelled block the disappeared upcoming entries in the order of the    *)
(* previous snapshot, each as many times as it occurs in that snapshot;    *)
(* the Cancelled block comes before the New block.                         *)
(***************************************************************************)
\* the elements of seq that are in S, in their order, each occurrence kept
RECURSIVE OccurrencesIn(_, _)
OccurrencesIn(seq, S) ==
    IF seq = << >> THEN << >>
    ELSE (IF Head(seq) \in S THEN << Head(seq) >> ELSE << >>) \o OccurrencesIn(Tail(seq), S)

\* the values of the blocks of that kind in the change list of configuration i
BlockValues(i, kind) ==
    LET ks == SelectSeq(changes_list[i], LAMBDA b : b.kind = kind)
    IN  [ k \in 1..Len(ks) |-> ks[k].value ]

C17_OrderAndMultiplicity ==
    HasDiffed =>
      \A i \in ConfigIds :
        LET new == OccurrencesIn(current_cal_entries_list[i], AppearedUpcoming(i))
            cancelled == OccurrencesIn(stored_cal_entries_list[i], DisappearedUpcoming(i))
            ranges(l) == [ k \in 1..Len(l) |->
                            pretty_print_time_range(l[k].start, l[k].end) ]
        IN  /\ BlockValues(i, "New") =
                 (IF new = << >> THEN << >> ELSE << ranges(new) >>)
            /\ BlockValues(i, "Cancelled") =
                 (IF cancelled = << >> THEN << >> ELSE << ranges(cancelled) >>)
            /\ \A k \in 1..Len(changes_list[i]) :
                 changes_list[i][k].kind = "New" => k = Len(changes_list[i])

\* one run reports two different cancelled entries, in the order of the stored
\* snapshot, and a new entry that the current snapshot holds twice
C17_Witness ==
    /\ HasDiffed
    /\ \E i \in ConfigIds :
         /\ Len(stored_cal_entries_list[i]) = 2
         /\ stored_cal_entries_list[i][1] # stored_cal_entries_list[i][2]
         /\ BlockValues(i, "Cancelled") =
              << << pretty_print_time_range(stored_cal_entries_list[i][1].start,
                                            stored_cal_entries_list[i][1].end),
                    pretty_print_time_range(stored_cal_entries_list[i][2].start,
                                            stored_cal_entries_list[i][2].end) >> >>
    /\ \E i \in ConfigIds :
         /\ Len(current_cal_entries_list[i]) = 2
         /\ current_cal_entries_list[i][1] = current_cal_entries_list[i][2]
         /\ BlockValues(i, "New") # << >>
         /\ Len(BlockValues(i, "New")[1]) = 2

(***************************************************************************)
(* C14  Unexpected errors are fatal.  As claimed: a run that ended with an *)
(* exception that is neither a fetch failure nor a collected delivery      *)
(* failure has put no snapshot.                                            *)
(***************************************************************************)
C14_NoPutOnUnexpectedError ==
    (pc = "done" /\ result.statusCode = -1) => table = table_at_start

(***************************************************************************)
(* C14 as the code has it: an exception of requests.post ends the run at   *)
(* once with the exception as its outcome, before any put, the table as it *)
(* was; an exception of table.put ends the run as well, but the puts made  *)
(* before it stay: every key put earlier in the run holds the run's        *)
(* current snapshot, the key of the failing put holds its previous or its  *)
(* current snapshot, and every other key is as it was.  An exception of    *)
(* create_table ends the run before anything is fetched, posted or put.    *)
(***************************************************************************)
C14_UnexpectedErrorIsFatal ==
    /\ result = RaisedInCreate =>
         /\ pc = "done"
         /\ fetch_tasks = << >> /\ read_tasks = << >>
         /\ posts = << >> /\ puts = << >>
         /\ table = table_at_start
    /\ \A k \in 1..Len(posts) :
         posts[k].raised =>
           /\ k = Len(posts)
           /\ pc = "done"
           /\ result.statusCode = -1
           /\ result.message = "unhandled exception"
           /\ puts = << >>
           /\ table = table_at_start
    /\ (pc = "done" /\ result.statusCode = -1 /\ puts # << >>) =>
         /\ result.message = "unhandled exception in table.put"
         /\ \A k \in 1..Len(posts) : ~ posts[k].raised /\ posts[k].status_code = 204
         /\ \A j \in 1..(Len(puts) - 1) :
              puts[j].id \in DOMAIN table /\ table[puts[j].id] = puts[j].value
         /\ LET last == puts[Len(puts)]
            IN  \/ last.id \in DOMAIN table /\ table[last.id] = last.value
                \/ last.id \in DOMAIN table /\ last.id \in DOMAIN table_at_start
                     /\ table[last.id] = table_at_start[last.id]
                \/ last.id \notin DOMAIN table /\ last.id \notin DOMAIN table_at_start
         /\ \A id \in (DOMAIN table) \cup (DOMAIN table_at_start) :
              (\A j \in 1..Len(puts) : puts[j].id # id) =>
                /\ id \in DOMAIN table
                /\ id \in DOMAIN table_at_start
                /\ table[id] = table_at_start[id]

\* the run before ended with an exception of requests.post; this run has
\* notified, has written its first snapshot, and its second put has raised
\* without writing
C14_Witness ==
    /\ prev_run.kind = "raised"
    /\ pc = "done"
    /\ result = RaisedInPut
    /\ Len(puts) = 2
    /\ table # table_at_start
    /\ table[puts[1].id] = puts[1].value
    /\ puts[2].id \notin DOMAIN table \/ table[puts[2].id] # puts[2].value

(***************************************************************************)
(* C12  Retry by the next run, as stated: a run in which a delivery failed *)
(* or a post raised leaves the table as it was.  The next run that fans in *)
(* then reads the same stored snapshots; when it fetches the same entries  *)
(* and every entry the failed run reported still starts after now, it      *)
(* computes the same Cancelled and New blocks and invokes                  *)
(* send_discord_message again.  The wall clock of the next run can be      *)
(* earlier (end of daylight time): an entry that differs between the       *)
(* snapshots and had started when the failed run looked can then start     *)
(* after now, and the retry reports it beside the others.                  *)
(***************************************************************************)
\* the run before this one got as far as the diff and then failed
PrevRunFailedAfterDiff ==
    prev_run.kind \in { "delivery_failed", "raised", "raised_in_put" }

\* the entries of configuration i that the run before reported in a block
PrevReported(i) ==
    { e \in Range(prev_run.stored[i]) \cup Range(prev_run.current[i]) :
        \E k \in 1..Len(prev_run.changes[i]) :
          /\ InList(pretty_print_time_range(e.start, e.end), prev_run.changes[i][k].value)
          /\ IF prev_run.changes[i][k].kind = "New"
             THEN e \notin Range(prev_run.stored[i])
             ELSE e \notin Range(prev_run.current[i]) }

C12_FailedRunIsRetried ==
    /\ (pc = "done" /\ (FailedPosts # {} \/ \E k \in 1..Len(posts) : posts[k].raised)) =>
         /\ table = table_at_start
         /\ result.statusCode # 200
    /\ (HasDiffed /\ prev_run.kind \in { "delivery_failed", "raised" }) =>
         \A i \in ConfigIds : stored_cal_entries_list[i] = prev_run.stored[i]
    /\ (/\ HasDiffed
        /\ prev_run.kind \in { "delivery_failed", "raised" }
        /\ \A i \in ConfigIds :
             /\ stored_cal_entries_list[i] = prev_run.stored[i]
             /\ current_cal_entries_list[i] = prev_run.current[i]
             /\ \A e \in PrevReported(i) : parse(e.start) > now) =>
         /\ untimed(changes_list) = prev_run.changes
         /\ any(changes_list) /\ fanout_calls = 1

(***************************************************************************)
(* C12  Retry by the next run, amended: under the same conditions the next *)
(* run reports at least every entry the failed run reported, each in a     *)
(* block of the same kind for the same configuration, and invokes          *)
(* send_discord_message again; its blocks are the same as the failed       *)
(* run's when no other differing entry starts after now.  The same holds   *)
(* after a run whose put raised without taking effect, but for the         *)
(* fanout, which that run may not have needed.                             *)
(***************************************************************************)
\* every differing entry of configuration i that starts after now was
\* reported by the run before
NoOtherUpcomingDifference(i) ==
    \A e \in AppearedUpcoming(i) \cup DisappearedUpcoming(i) : e \in PrevReported(i)

C12_FailedRunIsRetriedAtLeast ==
    /\ (pc = "done" /\ (FailedPosts # {} \/ \E k \in 1..Len(posts) : posts[k].raised)) =>
         /\ table = table_at_start
         /\ result.statusCode # 200
    /\ (HasDiffed /\ prev_run.kind \in { "delivery_failed", "raised" }) =>
         \A i \in ConfigIds : stored_cal_entries_list[i] = prev_run.stored[i]
    /\ (/\ HasDiffed
        /\ PrevRunFailedAfterDiff
        /\ \A i \in ConfigIds :
             /\ stored_cal_entries_list[i] = prev_run.stored[i]
             /\ current_cal_entries_list[i] = prev_run.current[i]
             /\ \A e \in PrevReported(i) : parse(e.start) > now) =>
         /\ reported_items(prev_run.changes) \subseteq reported_items(changes_list)
         /\ (\A i \in ConfigIds : NoOtherUpcomingDifference(i)) =>
              untimed(changes_list) = prev_run.changes
         /\ prev_run.kind \in { "delivery_failed", "raised" } =>
              (any(changes_list) /\ fanout_calls = 1)

\* a delivery of the run before failed; this run has found the same
\* cancelled and new entries again and has posted them
C12_Witness ==
    /\ prev_run.kind = "delivery_failed"
    /\ HasDiffed
    /\ untimed(changes_list) = prev_run.changes
    /\ \E i \in ConfigIds : BlockValues(i, "Cancelled") # << >>
    /\ \E i \in ConfigIds : BlockValues(i, "New") # << >>
    /\ fanout_calls = 1
    /\ posts # << >>
    /\ posts[1].status_code = 204

(***************************************************************************)
(* C16  Crash during persistence: when a put raises after other snapshots  *)
(* of the run were written, every configuration's key holds its complete   *)
(* previous snapshot or the complete current snapshot of that run; and the *)
(* next run, fetching the same entries, reports changes only for           *)
(* configurations whose key still holds the previous snapshot.             *)
(***************************************************************************)
\* what the table holds for configuration i ([] when the key is absent)
StoredNow(i) ==
    IF RecordNameOf(i) \in DOMAIN table THEN table[RecordNameOf(i)] ELSE << >>

C16_PartialPersistenceIsConsistent ==
    /\ (pc \in { "persist", "done" } /\ HasDiffed) =>
         \A i \in ConfigIds :
           \/ StoredNow(i) = stored_cal_entries_list[i]
           \/ StoredNow(i) = current_cal_entries_list[i]
    /\ (/\ HasDiffed
        /\ prev_run.kind = "raised_in_put"
        /\ \A i \in ConfigIds : current_cal_entries_list[i] = prev_run.current[i]) =>
         \A i \in ConfigIds :
           /\ \/ stored_cal_entries_list[i] = prev_run.stored[i]
              \/ stored_cal_entries_list[i] = prev_run.current[i]
           /\ stored_cal_entries_list[i] = prev_run.current[i] => changes_list[i] = << >>
           /\ changes_list[i] # << >> =>
                /\ stored_cal_entries_list[i] = prev_run.stored[i]
                /\ prev_run.stored[i] # prev_run.current[i]

\* the run before wrote the first configuration's snapshot and its put of the
\* second raised; both had changes then, and this run reports the second only
C16_Witness ==
    /\ prev_run.kind = "raised_in_put"
    /\ HasDiffed
    /\ prev_run.changes[1] # << >>
    /\ prev_run.changes[2] # << >>
    /\ prev_run.stored[1] # prev_run.current[1]
    /\ stored_cal_entries_list[1] = prev_run.current[1]
    /\ Len(stored_cal_entries_list[1]) > 1
    /\ changes_list[1] = << >>
    /\ stored_cal_entries_list[2] = prev_run.stored[2]
    /\ changes_list[2] # << >>

(***************************************************************************)
(* C19  Snapshot equals current after success: when a run has returned the *)
(* success result, the table holds for every configuration the current     *)
(* filtered snapshot of that run; and the run right after a successful     *)
(* run, when it fetches the same entries, finds no change, calls no        *)
(* fanout, posts nothing and puts nothing.                                 *)
(***************************************************************************)
C19_SnapshotEqualsCurrentAfterSuccess ==
    /\ (pc = "done" /\ result.statusCode = 200) =>
         \A i \in ConfigIds :
           (IF RecordNameOf(i) \in DOMAIN table THEN table[RecordNameOf(i)] ELSE << >>)
             = current_cal_entries_list[i]
    /\ (/\ HasDiffed
        /\ prev_run.kind = "success"
        /\ \A i \in ConfigIds : current_cal_entries_list[i] = prev_run.current[i]) =>
         /\ \A i \in ConfigIds :
              /\ stored_cal_entries_list[i] = current_cal_entries_list[i]
              /\ changes_list[i] = << >>
         /\ fanout_calls = 0
         /\ posts = << >>
         /\ puts = << >>
         /\ table = table_at_start
         /\ pc \in { "persist", "done" }
         /\ pc = "done" => result = Success(FALSE)

\* a run that notified a change and wrote snapshots succeeded; the run after
\* it fetched the same entries and has returned without message
C19_Witness ==
    /\ prev_run.kind = "success"
    /\ HasDiffed
    /\ any(prev_run.changes)
    /\ \E i \in ConfigIds : prev_run.stored[i] # prev_run.current[i]
    /\ \E i \in ConfigIds : current_cal_entries_list[i] # << >>
    /\ \A i \in ConfigIds : current_cal_entries_list[i] = prev_run.current[i]
    /\ pc = "done"
    /\ result = Success(FALSE)
    /\ puts = << >>

(***************************************************************************)
(* C20  Exactly-once notification under non-overlapping runs.  As claimed: *)
(* when the second invocation started after the first had ended, and every *)
(* delivery of both succeeded (each called the fanout and the webhook      *)
(* answered 204 to each), nothing the first invocation notified is         *)
(* notified again by the second.                                           *)
(***************************************************************************)
\* the second invocation has fanned in without a fetch error and has diffed
OtherHasDiffed ==
    other.pc \in { "notify", "persist", "done" } /\ other.current_cal_entries_list # << >>

\* the invocation called send_discord_message and every webhook answered 204
AllDelivered(calls, sent) ==
    /\ calls = 1
    /\ Len(sent) = Len(DISCORD_WEBHOOK_URLS)
    /\ \A k \in 1..Len(sent) : ~ sent[k].raised /\ sent[k].status_code = 204

\* the change list of configuration i of the second invocation reports
\* entry e in its block of that kind
OtherReportedAs(i, kind, e) ==
    \E k \in 1..Len(other.changes_list[i]) :
        /\ other.changes_list[i][k].kind = kind
        /\ InList(pretty_print_time_range(e.start, e.end), other.changes_list[i][k].value)

\* what both invocations report: << configuration, kind, time range >>
NotifiedByBoth ==
    reported_items(changes_list) \cap reported_items(other.changes_list)

C20_NotifiedOnce ==
    ( /\ other.started_after_first
      /\ pc = "done"
      /\ AllDelivered(fanout_calls, posts)
      /\ other.pc = "done"
      /\ AllDelivered(other.fanout_calls, other.posts) )
    => NotifiedByBoth = {}

(***************************************************************************)
(* C20  Amended.                                                           *)
(*  (a) A run that returns success has reported every appearance and      *)
(*      disappearance of an upcoming entry it observed, each delivered to  *)
(*      every webhook.                                                     *)
(*  (b) When the first invocation has returned success and the second      *)
(*      started after it had ended, the second reads as stored snapshots   *)
(*      the first one's current snapshots and reports nothing the first    *)
(*      reported, whatever the source holds by then.                       *)
(*  (c) When the first invocation delivered everything and then raised in  *)
(*      table.put, a configuration's record it left as it was is read with *)
(*      the same stored snapshot by a second invocation that started after *)
(*      it; if the source still lists the same entries for it, the second  *)
(*      reports again every change of the first whose entry is still       *)
(*      upcoming, and calls the fanout for it.                             *)
(*  (d) Overlap: when both invocations have fanned in and neither has made *)
(*      a put, both have read the same stored snapshots; for a             *)
(*      configuration both fetched the same entries of, the second reports *)
(*      every change of the first whose entry is still upcoming for it,    *)
(*      and both call the fanout for it.                                   *)
(***************************************************************************)
\* the record of configuration i was the same when each invocation started
SameRecordAtStart(i) ==
    /\ (RecordNameOf(i) \in DOMAIN other.table_at_start)
         <=> (RecordNameOf(i) \in DOMAIN table_at_start)
    /\ RecordNameOf(i) \in DOMAIN table_at_start =>
         other.table_at_start[RecordNameOf(i)] = table_at_start[RecordNameOf(i)]

\* changes of configuration i the first invocation reported whose entry
\* starts after the second invocation's now
StillUpcomingAppeared(i) == { e \in AppearedUpcoming(i) : parse(e.start) > other.now }

StillUpcomingDisappeared(i) == { e \in DisappearedUpcoming(i) : parse(e.start) > other.now }

\* the second invocation reports them too, and calls the fanout if there are any
NotifiedAgain(i) ==
    /\ \A e \in StillUpcomingAppeared(i) : OtherReportedAs(i, "New", e)
    /\ \A e \in StillUpcomingDisappeared(i) : OtherReportedAs(i, "Cancelled", e)
    /\ StillUpcomingAppeared(i) \cup StillUpcomingDisappeared(i) # {} =>
         other.fanout_calls = 1

C20_NotifiedOnceUnlessPutRaisesOrOverlap ==
    /\ (pc = "done" /\ result.statusCode = 200) =>
         \A i \in ConfigIds :
           (AppearedUpcoming(i) \cup DisappearedUpcoming(i) # {}) =>
             /\ AllDelivered(fanout_calls, posts)
             /\ \A e \in AppearedUpcoming(i) : ReportedAs(i, "New", e)
             /\ \A e \in DisappearedUpcoming(i) : ReportedAs(i, "Cancelled", e)
    /\ (pc = "done" /\ result.statusCode = 200
            /\ other.started_after_first /\ OtherHasDiffed) =>
         /\ other.stored_cal_entries_list = current_cal_entries_list
         /\ NotifiedByBoth = {}
    /\ (pc = "done" /\ result = RaisedInPut /\ AllDelivered(fanout_calls, posts)
            /\ other.started_after_first /\ OtherHasDiffed) =>
         \A i \in ConfigIds :
           SameRecordAtStart(i) =>
             /\ other.stored_cal_entries_list[i] = stored_cal_entries_list[i]
             /\ other.current_cal_entries_list[i] = current_cal_entries_list[i] =>
                  NotifiedAgain(i)
    /\ (HasDiffed /\ OtherHasDiffed /\ puts = << >> /\ other.puts = << >>) =>
         /\ other.stored_cal_entries_list = stored_cal_entries_list
         /\ \A i \in ConfigIds :
              other.current_cal_entries_list[i] = current_cal_entries_list[i] =>
                /\ NotifiedAgain(i)
                /\ StillUpcomingAppeared(i) \cup StillUpcomingDisappeared(i) # {} =>
                     fanout_calls = 1

\* two overlapping invocations: both started from the same table, both
\* reported the same change, the webhook answered 204 to both, and both went
\* on to return success
C20_Witness ==
    /\ pc = "done"
    /\ result.statusCode = 200
    /\ other.pc = "done"
    /\ other.result.statusCode = 200
    /\ ~ other.started_after_first
    /\ other.table_at_start = table_at_start
    /\ AllDelivered(fanout_calls, posts)
    /\ AllDelivered(other.fanout_calls, other.posts)
    /\ NotifiedByBoth # {}

(***************************************************************************)
(* C13  Rejected reply in the subscriber refresh.  As claimed: when a      *)
(* refresh has returned, no chat whose reply was rejected (Forbidden or    *)
(* BadRequest) is in the persisted subscriber list.                        *)
(***************************************************************************)
\* the refresh has returned its subscriber set
RefreshReturned == refresh.pc = "done" /\ refresh.result = "returned"

\* update k of the refresh is a message that subscribes its chat
IsSubscribe(k) ==
    /\ refresh.updates[k].type = "message"
    /\ \E j \in 1..Len(refresh.updates[k].text) :
         refresh.updates[k].text[j] \in { "/subscribe", "/Subscribe" }
    /\ \A j \in 1..Len(refresh.updates[k].text) :
         refresh.updates[k].text[j] # "/unsubscribe"

PersistedSubscribers ==
    IF SubscribersKey \in DOMAIN table THEN Range(table[SubscribersKey]) ELSE {}

C13_RejectedChatNotPersisted ==
    RefreshReturned =>
      \A k \in 1..Len(refresh.replies) :
        refresh.replies[k].outcome = "rejected" =>
          refresh.replies[k].chat \notin PersistedSubscribers

(***************************************************************************)
(* C13 as the code has it: a rejected reply discards the chat at that      *)
(* point of the loop and the loop goes on; the refresh does not raise by   *)
(* it and returns the subscriber set, every received update is processed   *)
(* and last_update_id covers them all; the chat is absent from the         *)
(* persisted list unless a later update of the same refresh subscribed it  *)
(* again with an accepted reply.                                           *)
(***************************************************************************)
C13_RejectedChatIsDiscarded ==
    /\ refresh.result = "raised" =>
         \/ refresh.replies = << >>
         \/ refresh.replies[Len(refresh.replies)].outcome = "raised"
    /\ (refresh.pc \in { "loop", "persist", "persist_subscribers" } /\ refresh.replies # << >>
          /\ refresh.replies[Len(refresh.replies)].outcome = "rejected") =>
         refresh.replies[Len(refresh.replies)].chat \notin refresh.update_subscribers
    /\ RefreshReturned =>
         /\ Len(refresh.replies) = Len(refresh.updates)
         /\ \A k \in 1..Len(refresh.updates) :
              /\ refresh.replies[k].update_id = refresh.updates[k].update_id
              /\ table[LastUpdateIdKey] >= refresh.updates[k].update_id
         /\ \A k \in 1..Len(refresh.replies) :
              (/\ refresh.replies[k].outcome = "rejected"
               /\ \A n \in (k + 1)..Len(refresh.replies) :
                    ~ (/\ refresh.replies[n].chat = refresh.replies[k].chat
                       /\ refresh.replies[n].outcome = "ok"
                       /\ IsSubscribe(n))) =>
                refresh.replies[k].chat \notin PersistedSubscribers

\* the reply to a chat's /subscribe was rejected, the update after it, of
\* another chat, was processed, and the refresh has persisted the other chat
\* only
C13_Witness ==
    /\ RefreshReturned
    /\ Len(refresh.replies) = 2
    /\ IsSubscribe(1)
    /\ refresh.replies[1].outcome = "rejected"
    /\ IsSubscribe(2)
    /\ refresh.replies[2].outcome = "ok"
    /\ refresh.replies[2].chat # refresh.replies[1].chat
    /\ PersistedSubscribers = { refresh.replies[2].chat }
    /\ table[LastUpdateIdKey] = refresh.updates[2].update_id

(***************************************************************************)
(* C18  Monotone update cursor, as stated: over the refreshes of the two   *)
(* invocations, whether or not they run at the same time, the persisted    *)
(* telegram_last_update_id is never below the value a refresh found when   *)
(* it was called nor below the id of an update a returned refresh          *)
(* received, and no update received by a refresh was received by another   *)
(* refresh that returned.                                                  *)
(***************************************************************************)
\* the value persisted when the current refresh was called, -1 when none
PersistedBefore == IF refresh.before.none THEN -1 ELSE refresh.before.value

\* the value persisted when the second invocation was called, -1 when none
OtherPersistedBefore ==
    IF other_refresh.before.none THEN -1 ELSE other_refresh.before.value

\* the value persisted now, -1 when none
PersistedLastUpdateId ==
    IF LastUpdateIdKey \in DOMAIN table THEN table[LastUpdateIdKey] ELSE -1

\* the second invocation has returned its subscriber set
OtherRefreshReturned == other_refresh.pc = "done" /\ other_refresh.result = "returned"

\* the updates of the refreshes of the first function that returned
ReturnedUpdateIds ==
    refresh.seen \cup (IF RefreshReturned THEN update_ids(refresh.updates) ELSE {})

PostedBlocks(k) ==
    [ n \in 1..Len(posts[k].embeds.changes) |->
        [ kind |-> posts[k].embeds.changes[n].kind,
          value |-> posts[k].embeds.changes[n].value ] ]

C21_AtLeastOnceDelivery ==
    /\ \A k \in 1..Len(posts) :
         /\ posts[k].embeds.changes = flatten(changes_list)
         /\ posts[k].embeds.changes # << >>
    /\ (pc = "done" /\ FailedPosts # {} /\ \A k \in 1..Len(posts) : ~ posts[k].raised) =>
         /\ result.statusCode = 500
         /\ Len(posts) = Len(DISCORD_WEBHOOK_URLS)
         /\ \A k \in 1..Len(posts) : posts[k].url = DISCORD_WEBHOOK_URLS[k]
    /\ (/\ HasDiffed
        /\ prev_run.kind = "delivery_failed"
        /\ \A i \in ConfigIds :
             /\ current_cal_entries_list[i] = prev_run.current[i]
             /\ \A e \in PrevReported(i) : parse(e.start) > now
        /\ pc \in { "persist", "done" }
        /\ \A k \in 1..Len(posts) : ~ posts[k].raised) =>
         /\ reported_items(prev_run.changes) \subseteq reported_items(changes_list)
         /\ \A url \in prev_run.ok_urls :
              \E k \in 1..Len(posts) :
                /\ posts[k].url = url
                /\ posts[k].embeds.changes = flatten(changes_list)
                /\ (\A i \in ConfigIds :
                      \A e \in AppearedUpcoming(i) \cup DisappearedUpcoming(i) :
                        e \in PrevReported(i)) =>
                     PostedBlocks(k) = flatten(prev_run.changes)
    /\ (pc = "done" /\ result.statusCode = 200 /\ any(changes_list)) =>
         \A j \in 1..Len(DISCORD_WEBHOOK_URLS) :
           \E k \in 1..Len(posts) :
             /\ posts[k].url = DISCORD_WEBHOOK_URLS[j]
             /\ posts[k].status_code = 204
             /\ posts[k].embeds.changes = flatten(changes_list)

\* in the run before, one webhook answered 204 and another did not; this
\* run has posted the same blocks to both, both answered 204, and it has
\* returned success: the first webhook has the change twice
C21_Witness ==
    /\ prev_run.kind = "delivery_failed"
    /\ prev_run.ok_urls # {}
    /\ pc = "done"
    /\ result.statusCode = 200
    /\ Len(posts) = 2
    /\ posts[1].status_code = 204
    /\ posts[2].status_code = 204
    /\ \E k \in 1..Len(posts) : posts[k].url \in prev_run.ok_urls
    /\ \E k \in 1..Len(posts) : posts[k].url \notin prev_run.ok_urls
    /\ PostedBlocks(1) = flatten(prev_run.changes)

(***************************************************************************)
(* C22  Past-only differences, as stated: when the current and the stored  *)
(* snapshot of a configuration differ, every entry that is in one and not  *)
(* in the other starts at or before now, and no configuration has a change *)
(* to report, the run calls no fanout and posts nothing, writes the        *)
(* current snapshot over the stored one, and returns success with          *)
(* message_sent false.  A table.put that raises at line 341 refutes the    *)
(* last two parts: the run ends with the exception, and the key may still  *)
(* hold the stored snapshot.                                               *)
(***************************************************************************)
\* the entries in which the two snapshots of configuration i differ
Differing(i) ==
    (Range(current_cal_entries_list[i]) \ Range(stored_cal_entries_list[i]))
    \cup (Range(stored_cal_entries_list[i]) \ Range(current_cal_entries_list[i]))

\* some snapshot differs from its stored one, and all differences are past
PastOnlyDifferences ==
    /\ HasDiffed
    /\ \E i \in ConfigIds : current_cal_entries_list[i] # stored_cal_entries_list[i]
    /\ \A i \in ConfigIds : \A e \in Differing(i) : parse(e.start) <= now

\* configuration i's key holds the current snapshot, written by a put of this run
Overwritten(i) ==
    /\ RecordNameOf(i) \in DOMAIN table
    /\ table[RecordNameOf(i)] = current_cal_entries_list[i]
    /\ \E j \in 1..Len(puts) :
         /\ puts[j].id = RecordNameOf(i)
         /\ puts[j].value = current_cal_entries_list[i]

C22_PastOnlyDifferences ==
    PastOnlyDifferences =>
      /\ \A i \in ConfigIds : changes_list[i] = << >>
      /\ fanout_calls = 0
      /\ posts = << >>
      /\ pc \in { "persist", "done" }
      /\ pc = "done" =>
           /\ result = Success(FALSE)
           /\ \A i \in ConfigIds :
                current_cal_entries_list[i] # stored_cal_entries_list[i] => Overwritten(i)

(***************************************************************************)
(* C22  Past-only differences, amended: under the same precondition the    *)
(* run calls no fanout and posts nothing and goes on to the put loop.      *)
(* When no put raises it returns success with message_sent false and every *)
(* differing configuration's key holds the current snapshot.  When a put   *)
(* raises the run ends with that exception: the differing configurations   *)
(* before the failing one are overwritten, the failing one's key holds the *)
(* stored or the current snapshot, and the later ones still hold the       *)
(* stored snapshot.                                                        *)
(***************************************************************************)
C22_PastOnlyDifferencesUnlessPutRaises ==
    PastOnlyDifferences =>
      /\ \A i \in ConfigIds : changes_list[i] = << >>
      /\ fanout_calls = 0
      /\ posts = << >>
      /\ pc \in { "persist", "done" }
      /\ pc = "done" =>
           \/ /\ result = Success(FALSE)
              /\ \A i \in ConfigIds :
                   current_cal_entries_list[i] # stored_cal_entries_list[i] =>
                     Overwritten(i)
           \/ /\ result = RaisedInPut
              /\ puts # << >>
              /\ \E f \in ConfigIds :
                   /\ current_cal_entries_list[f] # stored_cal_entries_list[f]
                   /\ puts[Len(puts)].id = RecordNameOf(f)
                   /\ KeyAsAtStart(f) \/ table[RecordNameOf(f)] = current_cal_entries_list[f]
                   /\ \A i \in ConfigIds :
                        /\ (i < f /\ current_cal_entries_list[i] # stored_cal_entries_list[i])
                             => Overwritten(i)
                        /\ i > f => KeyAsAtStart(i)

\* an entry that starts right now is gone from the source: nothing was posted, the
\* stored snapshot was overwritten by the current one, and the run has
\* returned success without message
C22_Witness ==
    /\ PastOnlyDifferences
    /\ pc = "done"
    /\ result = Success(FALSE)
    /\ posts = << >>
    /\ \E i \in ConfigIds :
         /\ \E e \in Range(stored_cal_entries_list[i]) \ Range(current_cal_entries_list[i]) :
              parse(e.start) = now
         /\ table[RecordNameOf(i)] = current_cal_entries_list[i]
         /\ table_at_start[RecordNameOf(i)] = stored_cal_entries_list[i]
         /\ table[RecordNameOf(i)] # table_at_start[RecordNameOf(i)]

(***************************************************************************)
(* C23  Absent key: when the table holds no item under a configuration's   *)
(* key as the run starts, the stored snapshot read for it is the empty     *)
(* list; the run reports no Cancelled block for it and a New block with    *)
(* exactly the current filtered entries that start after now, in order;    *)
(* and when the run has returned success the key holds the current         *)
(* snapshot if that is non-empty, and is still absent if it is empty.      *)
(***************************************************************************)
\* configuration i had no item in the table when the run started
KeyAbsentAtStart(i) == RecordNameOf(i) \notin DOMAIN table_at_start

C23_AbsentKeyIsEmptySnapshot ==
    HasDiffed =>
      \A i \in ConfigIds :
        KeyAbsentAtStart(i) =>
          LET upcoming == OccurrencesIn(current_cal_entries_list[i],
                              { e \in Range(current_cal_entries_list[i]) :
                                  parse(e.start) > now })
          IN  /\ stored_cal_entries_list[i] = << >>
              /\ BlockValues(i, "Cancelled") = << >>
              /\ BlockValues(i, "New") =
                   (IF upcoming = << >> THEN << >>
                    ELSE << [ k \in 1..Len(upcoming) |->
                                pretty_print_time_range(upcoming[k].start,
                                                        upcoming[k].end) ] >>)
              /\ (pc = "done" /\ result.statusCode = 200) =>
                   IF current_cal_entries_list[i] # << >>
                   THEN /\ RecordNameOf(i) \in DOMAIN table
                        /\ table[RecordNameOf(i)] = current_cal_entries_list[i]
                   ELSE RecordNameOf(i) \notin DOMAIN table

\* another configuration has a snapshot, this one has no item; of its two
\* current entries the one that starts after now was reported as New, the
\* other was not, and the successful run has stored both
C23_Witness ==
    /\ HasDiffed
    /\ pc = "done"
    /\ result.statusCode = 200
    /\ DOMAIN table_at_start # {}
    /\ \E i \in ConfigIds :
         /\ KeyAbsentAtStart(i)
         /\ Len(current_cal_entries_list[i]) = 2
         /\ BlockValues(i, "New") # << >>
         /\ Len(BlockValues(i, "New")[1]) = 1
         /\ RecordNameOf(i) \in DOMAIN table
         /\ table[RecordNameOf(i)] = current_cal_entries_list[i]
====
